---- MODULE Spec2Model ----
(***************************************************************************)
(* The frame-tick scheduler of microfview (microfview/main.py, class       *)
(* Microfview): registration of plugins and frame stores, the start-up     *)
(* phase of run(), the tick loop, the post-tick removal of finished        *)
(* plugins, the cleanup path, and the external stop().                     *)
(*                                                                         *)
(* The scheduler thread is a process whose position is pc; the external    *)
(* stop() is a step of another thread that may interleave anywhere.        *)
(* A plugin is called through its handle (every, push_frame); what a call  *)
(* returns or raises is an input of the step.  detach_plugin, which the    *)
(* user, another thread or a callback may call before or during a run, is  *)
(* a step of the specification SpecDetach; Spec has the runs without it.   *)
(* No method of Microfview but stop() and the check of line 328 takes the  *)
(* lock: the methods of the OrderedDict self._plugins, which are Python    *)
(* code, are taken line by line.                                           *)
(***************************************************************************)
EXTENDS Integers, Sequences, FiniteSets, TLC

\* Number of iterations of the tick loop the frame source serves before it
\* answers only with end-of-stream.
MaxGrabs == 4

\* The steps of the source's frame number from one frame to the next that a
\* run may see (a step of 2 is one skipped frame).
Skips == {1, 2}

\* The plugin objects a run may register, and the frame stores.
Plugins == {"a", "b", "c"}
Stores == {"s1", "s2"}

\* The plugins a run may register through attach_plugin and through
\* attach_display_plugin ("b" through both, which run() rejects).
RegularPlugins == {"a", "b"}
DisplayPlugins == {"b", "c"}

\* plugin.every, the period of a plugin.
every(p) == IF p = "b" THEN 2 ELSE 1

\* plugin.identifier: "%s:%s" % (_uid, human_name).  Nothing in main.py calls
\* set_uid, so two plugins of one class ("a" and "b") have the same identifier.
identifier(p) == IF p = "c" THEN "UNKNOWN:DisplayPlugin(microfview)" ELSE "UNKNOWN:A"

\* What one call of a callback can do: return None, return a non-empty state
\* dict, raise PluginFinished, raise another exception.
Returns == {"None", "dict", "PluginFinished", "Exception"}

\* What one call of frame_capture.grab_next_frame() can do.
GrabOutcomes == {"frame", "NoneFrame", "noncritical", "EOFError", "Exception"}

VARIABLES
    pc,                         \* position of the scheduler thread in run()
    _callbacks,                 \* list of handles, in call order
    _plugins,                   \* OrderedDict handle -> plugin: the keys, in the order
                                \* in which an iteration over it comes to them
    _display_plugins,           \* list of plugins registered for display
    _framestores,               \* list of attached frame stores
    _callback_names,            \* handles that have a name entry
    _run,                       \* the run flag
    finished,                   \* the finished flag
    frame_count,                \* frames dispatched so far
    frame_number_current,       \* frame number of the last dispatched frame
    execution_times,            \* keys of the execution_times dict
    finished_callback_handles,  \* handles that raised PluginFinished this tick
    i,                          \* index of the loop the thread is in
    exc,                        \* an exception is propagating out of the try block
    iteration,                  \* number of loop iterations begun
    started, stopped, calls,    \* per plugin: start(), stop(), push_frame() calls
    opened, closed, stored,     \* per store: open(), close() calls, and the store()
                                \* calls of the tick being dispatched
    last_grab,                  \* outcome of the last grab_next_frame()
    tick_callbacks,             \* _callbacks as it was when the tick began
    tick_calls,                 \* the handles called in this tick, in call order
    finished_tick,              \* per plugin: frame_count when it raised PluginFinished, or 0
    registered,                 \* the plugins given to attach_plugin by the user, in call order
    stop_at,                    \* when the external stop() was called: "never", "startup",
                                \* "after", or the pc of the tick loop it was called at
    stop_iteration,             \* value of iteration when stop() was called in the loop
    stop_calls,                 \* Len(tick_calls) when stop() was called during dispatch
    profile_calls               \* calls of self._profile, the profiler that attach_profiler
                                \* set before the start (lines 100-106)

\* One worker-backed plugin (a NonBlockingPlugin, or a PluginChain with
\* threaded set), its two queues, its thread, and the thread that calls its
\* push_frame() and stop(): the scheduler.
VARIABLES
    kind,                       \* the class of the plugin
    _arg_queue,                 \* Queue.Queue(maxsize=1): inputs, and the sentinel
    _res_queue,                 \* Queue.Queue(maxsize=1): results
    wpc,                        \* position of the worker thread in run()
    args,                       \* the inputs the worker thread is computing on
    result,                     \* what the worker thread is about to put
    spc,                        \* position of the scheduler in push_frame()/stop()
    pushes,                     \* number of push_frame() calls so far
    accepted,                   \* inputs that went into the argument queue, in order
    received,                   \* results push_frame() got from the result queue, in order
    last_ret,                   \* what the last push_frame() returned
    poll_empty,                 \* the result queue was empty when it was last polled
    state,                      \* results merged into the FrameState of this tick
    buf,                        \* the current buffer of this tick
    sink_calls,                 \* store() calls made for the plugin in this tick
    processed,                  \* the inputs the thread has computed on, in order
    called,                     \* the children of the chain that _call_plugins has called
                                \* for the input the thread is computing on
    frame_original              \* per tick (push_frame call): state['FRAME_ORIGINAL'] of
                                \* the state object made for the tick (main.py, line 251),
                                \* named by the tick the frame was acquired in

workervars == <<kind, _arg_queue, _res_queue, wpc, args, result, spc, pushes,
                accepted, received, last_ret, poll_empty, state, buf, sink_calls,
                processed, called, frame_original>>

schedvars == <<pc, _callbacks, _plugins, _display_plugins, _framestores, _callback_names,
          _run, finished, frame_count, frame_number_current, execution_times,
          finished_callback_handles, i, exc, iteration,
          started, stopped, calls, opened, closed, stored, last_grab,
          tick_callbacks, tick_calls, finished_tick, registered, stop_at,
          stop_iteration, stop_calls, profile_calls>>

\* The FrameState of a tick, as the callbacks and an inline PluginChain
\* change it.
VARIABLES
    fpc,                        \* position of the scheduler in the tick
    ticks,                      \* number of ticks begun
    frame_state,                \* the dict state of the tick (main.py, line 250)
    last_key,                   \* the last value cv2.waitKey gave (line 339)
    merge_log,                  \* the deltas given to state_update in this tick, in order
    children,                   \* PluginChain._plugins
    chain_frame,                \* the local frame of _call_plugins
    chain_entry,                \* the state as it was when _call_plugins began
    chain_log,                  \* for every child called in this push_frame: what it
                                \* received and what it returned
    chain_out,                  \* how push_frame of the chain ended in this tick
    tick_buf,                   \* the local buf of run(): the buffer the next callback gets
    call_log,                   \* for every callback called in this tick: the buffer it
                                \* received and the frame it returned
    call_cvwaitkey,             \* the local call_cvwaitkey of run() (main.py, line 209)
    _waitkey_delay              \* 0 when single_frame_step was given, else 1 (line 67)

framevars == <<fpc, ticks, frame_state, last_key, merge_log, children, chain_frame,
               chain_entry, chain_log, chain_out, tick_buf, call_log,
               call_cvwaitkey, _waitkey_delay>>

\* FrameStoreManager.store and the threads that call it.
VARIABLES
    _lock,                      \* threading.Lock: the thread that holds it, or "free"
    caller_pc,                  \* per thread: its position in store()
    fanout,                     \* per thread: the sinks its store() has called so far
    store_calls                 \* per thread: store() calls begun

lockvars == <<_lock, caller_pc, fanout, store_calls>>

\* attach_plugin and attach_callback as the user calls them, with any
\* object, and the thread that calls detach_plugin or detach_callback.
VARIABLES
    attach_count,               \* attach_plugin and attach_callback calls so far
    attach_arg,                 \* the object the last of them was given
    attach_raised,              \* what the last of them raised, or "none"
    apc,                        \* position of the attaching thread: "idle", or where
                                \* it is in self._plugins[handle] = plugin (line 174)
    detached,                   \* the plugins that were detached and stopped, in order
    detach_count,               \* detach_plugin and detach_callback calls so far
    detach_handle,              \* the handle detach_callback was called with
    dpc                         \* position of the detaching thread: in
                                \* detach_callback, or how its last call ended

callervars == <<attach_count, attach_arg, attach_raised, apc, detached, detach_count,
                detach_handle, dpc>>

\* self._plugins, the collections.OrderedDict of line 58, as its methods
\* keep it, and the scheduler thread in the methods and loops that use it.
VARIABLES
    _plugins_keys,              \* the keys the dict holds
    _plugins_map,               \* self.__map: the pairs <<key, node>>
    _plugins_links,             \* the nodes [prev, next, key] of the linked list, each
                                \* named by its place here; the first is the root
    curr,                       \* the node the iterator of the scheduler thread over
                                \* _plugins stands on (the root: it has not begun)
    od_locals,                  \* per thread: the nodes its call of a method of
                                \* _plugins holds, last (__setitem__) or link_prev and
                                \* link_next (__delitem__)
    step                        \* where the scheduler thread is within the round of
                                \* the loop it is in (line 194, lines 320-341)

odvars == <<_plugins_keys, _plugins_map, _plugins_links, curr, od_locals>>

attachvars == <<callervars, odvars, step>>

\* The call of a callback, main.py, line 274.
VARIABLES
    arguments,                  \* the number of arguments the caller of push_frame passes
    parameters,                 \* the number of parameters the callable that is called has
    cb_ret,                     \* what the last call of a callback returned or raised
                                \* ("none": no call yet)
    cb_stores                   \* the s.store() calls run() made for it (lines 304-305)

callvars == <<arguments, parameters, cb_ret, cb_stores>>

vars == <<schedvars, workervars, framevars, lockvars, attachvars, callvars>>

progvars == <<_callbacks, _plugins, _display_plugins, _framestores, _callback_names,
              _run, finished, frame_count, frame_number_current, execution_times,
              finished_callback_handles>>

obsvars == <<started, stopped, calls, opened, closed, stored>>

tickvars == <<last_grab, tick_callbacks, tick_calls, finished_tick, iteration>>

Range(s) == {s[k] : k \in 1..Len(s)}

Remove(s, x) == SelectSeq(s, LAMBDA y : y # x)

Bump(f, x) == [f EXCEPT ![x] = @ + 1]

(***************************************************************************)
(* collections.OrderedDict, as self._plugins uses it: a dict whose keys    *)
(* are also the nodes [prev, next, key] of a doubly linked list that       *)
(* begins and ends at the root node; self.__map has the node of every key. *)
(* A node is named by its place in the list of all nodes; a node that      *)
(* nothing refers to any more is gone.                                     *)
(***************************************************************************)

RootNode == 1

NoNode == 0

\* OrderedDict(): the root alone, linked to itself.
EmptyLinks == <<[prev |-> RootNode, next |-> RootNode, key |-> "root"]>>

\* The place of a node that is gone.
Collected == [prev |-> NoNode, next |-> NoNode, key |-> "none"]

\* The threads that call methods of self._plugins, and a thread that is in
\* none of them.
OdThreads == {"scheduler", "attach", "detach"}

NoLocals == <<NoNode, NoNode>>

\* __iter__: the keys of the nodes from n on, each node followed by its
\* next, up to the root.
RECURSIVE KeysFrom(_, _, _)
KeysFrom(links, n, fuel) ==
    IF n = RootNode \/ fuel = 0 THEN <<>>
    ELSE <<links[n].key>> \o KeysFrom(links, links[n].next, fuel - 1)

\* The keys in the order in which iter(self._plugins) gives them.
IterationOrder(links) == KeysFrom(links, links[RootNode].next, Len(links))

\* The nodes that the nodes of S refer to, and S.
RECURSIVE Reachable(_, _, _)
Reachable(links, S, fuel) ==
    IF fuel = 0 THEN S
    ELSE Reachable(links,
                   (S \cup {links[n].prev : n \in S} \cup {links[n].next : n \in S})
                       \ {NoNode},
                   fuel - 1)

\* The nodes that are still there: those the root, self.__map, the iterator
\* of the scheduler thread or a local of a thread leads to.
Live(links, map, it, locals) ==
    Reachable(links,
              ({RootNode, it} \cup {e[2] : e \in map}
                  \cup {locals[th][1] : th \in OdThreads}
                  \cup {locals[th][2] : th \in OdThreads}) \ {NoNode},
              Len(links))

\* The nodes without those that nothing refers to.
Collect(links, map, it, locals) ==
    LET live == Live(links, map, it, locals)
        top == CHOOSE n \in live : \A m \in live : m <= n
    IN  [n \in 1..top |-> IF n \in live THEN links[n] ELSE Collected]

\* The place a new node gets.
FreeNode(links) ==
    IF \E n \in 1..Len(links) : links[n] = Collected
    THEN CHOOSE n \in 1..Len(links) :
             /\ links[n] = Collected
             /\ \A m \in 1..(n - 1) : links[m] # Collected
    ELSE Len(links) + 1

\* __setitem__: last[1] = root[0] = self.__map[key] = [last, root, key], the
\* links of the statement.  The targets are assigned from left to right.
Linked(links, last, key) ==
    LET new == FreeNode(links)
        node == [prev |-> last, next |-> RootNode, key |-> key]
        made == IF new > Len(links) THEN Append(links, node)
                ELSE [links EXCEPT ![new] = node]
        behind == [made EXCEPT ![last].next = new]
    IN  [behind EXCEPT ![RootNode].prev = new]

\* self.__map with the node of a key entered, and with the key popped.
MapWith(map, key, n) == {e \in map : e[1] # key} \cup {<<key, n>>}

MapWithout(map, key) == {e \in map : e[1] # key}

MapKeys(map) == {e[1] : e \in map}

MapNode(map, key) == (CHOOSE e \in map : e[1] = key)[2]

Init ==
    /\ pc = "setup"
    /\ _callbacks = <<>>
    /\ _plugins = <<>>
    /\ _display_plugins = <<>>
    /\ _framestores = <<>>
    /\ _callback_names = {}
    /\ _run = FALSE
    /\ finished = FALSE
    /\ frame_count = 0
    /\ frame_number_current = 0
    /\ execution_times = {}
    /\ finished_callback_handles = <<>>
    /\ i = 1
    /\ exc = FALSE
    /\ iteration = 0
    /\ started = [p \in Plugins |-> 0]
    /\ stopped = [p \in Plugins |-> 0]
    /\ calls = [p \in Plugins |-> 0]
    /\ opened = [s \in Stores |-> 0]
    /\ closed = [s \in Stores |-> 0]
    /\ stored = [s \in Stores |-> 0]
    /\ last_grab = "none"
    /\ tick_callbacks = <<>>
    /\ tick_calls = <<>>
    /\ finished_tick = [p \in Plugins |-> 0]
    /\ registered = <<>>
    /\ stop_at = "never"
    /\ stop_iteration = 0
    /\ stop_calls = 0
    /\ profile_calls = 0

\* main.py, line 274: run() calls a callback with six arguments,
\* cb(buf, frame_number, self.frame_count, frame_timestamp, now, state).
RunArguments == 6

\* plugin.py, lines 140, 157, 259, 293 and 347: push_frame of every plugin
\* class has seven parameters after self; the seventh is stores.
PushFrameParameters == 7

\* The callers of push_frame: run() as it is, and a caller that passes the
\* stores as well.
CallArguments == {RunArguments, PushFrameParameters}

\* The callables run() is given: one that takes the six arguments of line
\* 274 (the callback_func that the docstring of attach_callback describes,
\* line 117), and push_frame of a class of plugin.py.
Callables == {RunArguments, PushFrameParameters}

\* A call with n arguments enters the callable when the callable has n
\* parameters; with any other number the call raises TypeError and the body
\* of the callable is not reached.
Enters(n) == n = parameters

\* No callback called yet.
NoCallYet ==
    /\ cb_ret = "none"
    /\ cb_stores = <<>>

\* The caller is run() as it is, and the callbacks take what it passes.
CallAtRest ==
    /\ arguments = RunArguments
    /\ parameters = RunArguments
    /\ NoCallYet

\* The caller is run() as it is, and the callable takes what it passes or
\* is push_frame of a class of plugin.py.
CallOfRun ==
    /\ arguments = RunArguments
    /\ parameters \in Callables
    /\ NoCallYet

\* push_frame of a class of plugin.py, and either caller.
CallOfPushFrame ==
    /\ arguments \in CallArguments
    /\ parameters = PushFrameParameters
    /\ NoCallYet

\* plugin.py, line 325: both queues of a worker-backed plugin hold one item.
QueueMaxsize == 1

\* The values a queue holds.  An input is the number of the push_frame() call
\* that made it; the sentinel None that stop() puts is 0.  A result names
\* the input it was computed from and the kind of value it is.
Sentinel == 0

Value(n, v) == [of |-> n, val |-> v]

\* What push_frame hands to the scheduler: the busy marker False, or a frame
\* (0: the frame that was pushed) and a state delta (0: an empty one), each
\* named by the input it was computed from.
Return(b, f, d) == [busy |-> b, frame |-> f, delta |-> d, raised |-> "none"]

\* push_frame did not return: it raised v in the thread of its caller.
Raised(v) == [busy |-> FALSE, frame |-> 0, delta |-> 0, raised |-> v]

\* PluginChain.__init__, line 180: the result queue of a chain starts with
\* the value False in it.
Primed == Value(0, "False")

WorkerKinds == {"NonBlockingPlugin", "PluginChain"}

\* A result queue that starts empty.
InitialResultsEmpty(c) == <<>>

\* What __init__ leaves in the result queue: line 180 for a chain, nothing
\* for a NonBlockingPlugin (line 326).
InitialResults(c) == IF c = "PluginChain" THEN <<Primed>> ELSE <<>>

\* The worker-backed plugin before its thread is started, as __init__ leaves
\* it (lines 163-184 and 312-329).
WorkerConstructed(c) ==
    /\ kind = c
    /\ _arg_queue = <<>>
    /\ _res_queue = InitialResults(c)
    /\ wpc = "get"
    /\ args = <<>>
    /\ result = Value(0, "None")
    /\ spc = "idle"
    /\ pushes = 0
    /\ accepted = <<>>
    /\ received = <<>>
    /\ last_ret = Return(FALSE, 0, 0)
    /\ poll_empty = FALSE
    /\ state = {}
    /\ buf = 0
    /\ sink_calls = <<>>
    /\ processed = <<>>
    /\ called = 0
    /\ frame_original = <<>>

\* The scheduler on its own: the worker-backed plugin is not looked at.
WorkerAtRest == WorkerConstructed("NonBlockingPlugin")

\* store.py, lines 5-11.
DETECTED_OBJECT == "UFVIEW_object"

SPECIAL_STATE_KEYS == {"UFVIEW_object", "UFVIEW_tracked_object",
                       "UFVIEW_tracked_3d_object", "UFVIEW_contour",
                       "UFVIEW_point_array"}

\* The keys of the model's FrameState: an accumulating key, a key "n" that is
\* not one, and the key of the control input.  Every value is written as the
\* list of its items: a list of detections as it is, a scalar v as <<v>>, and
\* None, or a key that is not in the dict, as <<>> (a defaultdict(list) reads
\* a missing key as the empty list).
StateKeys == {DETECTED_OBJECT, "n", "KEY"}

\* main.py, lines 250-253: state = defaultdict(list), state['KEY'] = None.
FreshState == [k \in StateKeys |-> <<>>]

\* The plugins a chain is made of.
ChainPlugins == {"A", "B"}

\* What PluginChain is called with: the plugins one by one, PluginChain(A, B),
\* or, as examples/chain.py, lines 36-43, has it, one tuple of the plugins,
\* PluginChain((A, B)).
ChainArguments == {<<"A", "B">>, <<"(A, B)">>}

\* PluginChain.__init__(*plugins), plugin.py, lines 163-184: line 172 reads
\* shows_windows of every argument (no plugin of the chain shows a window),
\* which a tuple does not have; line 177 makes _plugins the list of the
\* arguments, in their order.
PluginChain__init__(plugins) ==
    IF \A k \in DOMAIN plugins : plugins[k] \in ChainPlugins
    THEN [raised |-> "none", _plugins |-> plugins]
    ELSE [raised |-> "AttributeError", _plugins |-> <<>>]

\* The children of the chain PluginChain(A, B).
ChainChildren == PluginChain__init__(<<"A", "B">>)._plugins

\* The threads that call FrameStoreManager.store, and the sinks it holds.
Threads == {"scheduler", "worker"}

Sinks == <<"s1", "s2">>

\* Nothing attached through attach_plugin_call or attach_callback yet, and
\* no call of detach_plugin or detach_callback made.
AttachAtRest ==
    /\ attach_count = 0
    /\ attach_arg = "none"
    /\ attach_raised = "none"
    /\ detached = <<>>
    /\ detach_count = 0
    /\ detach_handle = "none"
    /\ dpc = "idle"
    /\ apc = "idle"
    /\ _plugins_keys = {}
    /\ _plugins_map = {}
    /\ _plugins_links = EmptyLinks
    /\ curr = RootNode
    /\ od_locals = [th \in OdThreads |-> NoLocals]
    /\ step = "begin"

\* The frames of a tick: the frame the source gave, which run() makes the
\* buffer of the tick (main.py, lines 245-248), is 0; the frame that the
\* k-th callback called in the tick returns is k.
NewFrame == 0

\* No tick begun, the chain as PluginChain(a) constructed it.  w is what
\* line 209 computes, any(p.shows_windows for p in the plugins), and d is
\* _waitkey_delay.  When the constructor of the chain raises there is no
\* chain to attach and no run.
FrameConstructed(w, d, a) ==
    /\ call_cvwaitkey = w
    /\ _waitkey_delay = d
    /\ fpc = IF PluginChain__init__(a).raised = "none" THEN "idle" ELSE "aborted"
    /\ ticks = 0
    /\ frame_state = FreshState
    /\ last_key = <<>>
    /\ merge_log = <<>>
    /\ children = PluginChain__init__(a)._plugins
    /\ chain_frame = "buf"
    /\ chain_entry = FreshState
    /\ chain_log = <<>>
    /\ chain_out = PluginChain__init__(a).raised
    /\ tick_buf = NewFrame
    /\ call_log = <<>>

\* The scheduler on its own: no plugin shows a window, no single_frame_step.
FrameAtRest == FrameConstructed(FALSE, 1, <<"A", "B">>)

\* FrameStoreManager.__init__, lines 125-127, and no store() under way.
LockAtRest ==
    /\ _lock = "free"
    /\ caller_pc = [t \in Threads |-> "idle"]
    /\ fanout = [t \in Threads |-> <<>>]
    /\ store_calls = [t \in Threads |-> 0]


(***************************************************************************)
(* Registration (before the thread is started).                            *)
(***************************************************************************)

\* attach_callback, line 132: the handle goes to the end of the list.
CallbacksAfterAttachFront(cbs, h) == <<h>> \o cbs

CallbacksAfterAttach(cbs, h) == Append(cbs, h)

\* attach_callback, lines 132 and 147, as attach_plugin calls it in line
\* 173 with plugin.push_frame and plugin.every: the handle is appended to
\* _callbacks and named in _callback_names.  The caller has checked that the
\* handle is not in _callbacks.
AttachEffect(p) ==
    /\ _callbacks' = CallbacksAfterAttach(_callbacks, p)
    /\ _callback_names' = _callback_names \cup {p}

\* The state of self._plugins and of the threads in its methods after a step
\* of one of them.
OdState(keys, map, links, locals) ==
    [keys |-> keys, map |-> map, links |-> links, locals |-> locals]

\* The step changes nothing of it.
OdSame == OdState(_plugins_keys, _plugins_map, _plugins_links, od_locals)

\* self._plugins[h] = plugin, OrderedDict.__setitem__, in the thread th, one
\* line a step:
\*   "setitem"  if key not in self: root = self.__root; last = root[0]
\*   "link"     last[1] = root[0] = self.__map[key] = [last, root, key]
\*   "dict"     dict_setitem(self, key, value)
\* A key that is in the dict gets its value and no node.
SetitemNext(stage, h) ==
    CASE stage = "setitem" -> IF h \in _plugins_keys THEN "dict" ELSE "link"
      [] stage = "link" -> "dict"
      [] stage = "dict" -> "done"

Setitem(th, stage, h) ==
    CASE stage = "setitem" ->
           IF h \in _plugins_keys THEN OdSame
           ELSE OdState(_plugins_keys, _plugins_map, _plugins_links,
                        [od_locals EXCEPT ![th] = <<_plugins_links[RootNode].prev, NoNode>>])
      [] stage = "link" ->
           OdState(_plugins_keys,
                   MapWith(_plugins_map, h, FreeNode(_plugins_links)),
                   Linked(_plugins_links, od_locals[th][1], h),
                   [od_locals EXCEPT ![th] = NoLocals])
      [] stage = "dict" ->
           OdState(_plugins_keys \cup {h}, _plugins_map, _plugins_links, od_locals)

\* self._plugins.pop(h), OrderedDict.pop and __delitem__, in the thread th:
\*   "pop"          if key in self: result = self[key]; dict_delitem(self, key)
\*   "map"          link_prev, link_next, _ = self.__map.pop(key)
\*   "unlink_prev"  link_prev[1] = link_next
\*   "unlink_next"  link_next[0] = link_prev
\* A key that the dict or self.__map does not have is a KeyError.
PopNext(stage, h) ==
    CASE stage = "pop" -> IF h \in _plugins_keys THEN "map" ELSE "KeyError"
      [] stage = "map" -> IF h \in MapKeys(_plugins_map) THEN "unlink_prev" ELSE "KeyError"
      [] stage = "unlink_prev" -> "unlink_next"
      [] stage = "unlink_next" -> "stop"

\* A pop that leaves the plugin in the dict.
PopKept(th, stage, h) == OdSame

Pop(th, stage, h) ==
    CASE stage = "pop" ->
           OdState(_plugins_keys \ {h}, _plugins_map, _plugins_links, od_locals)
      [] stage = "map" ->
           IF h \in MapKeys(_plugins_map)
           THEN LET n == MapNode(_plugins_map, h) IN
                OdState(_plugins_keys, MapWithout(_plugins_map, h), _plugins_links,
                        [od_locals EXCEPT ![th] = <<_plugins_links[n].prev,
                                                    _plugins_links[n].next>>])
           ELSE OdSame
      [] stage = "unlink_prev" ->
           OdState(_plugins_keys, _plugins_map,
                   [_plugins_links EXCEPT ![od_locals[th][1]].next = od_locals[th][2]],
                   od_locals)
      [] stage = "unlink_next" ->
           OdState(_plugins_keys, _plugins_map,
                   [_plugins_links EXCEPT ![od_locals[th][2]].prev = od_locals[th][1]],
                   [od_locals EXCEPT ![th] = NoLocals])

PopStages == {"pop", "map", "unlink_prev", "unlink_next"}

SetitemStages == {"setitem", "link", "dict"}

\* What a step leaves of self._plugins: s, with the iterator of the
\* scheduler thread on the node it; the nodes that nothing refers to are
\* gone.
OdBecomes(s, it) ==
    /\ _plugins_keys' = s.keys
    /\ _plugins_map' = s.map
    /\ od_locals' = s.locals
    /\ curr' = it
    /\ _plugins_links' = Collect(s.links, s.map, it, s.locals)
    /\ _plugins' = IterationOrder(_plugins_links')

\* Line 175, the log message, reads plugin.identifier and
\* plugin.shows_windows: an object without one of them raises AttributeError
\* here.
LogRaises(c) ==
    IF c \in {"no_identifier", "no_shows_windows"} THEN "AttributeError" ELSE "none"

\* attach_plugin called by the user, lines 168-173: attach_callback has
\* returned the handle; an already attached handle is rejected with
\* ValueError (line 131) and changes nothing.
attach_plugin(p) ==
    /\ pc = "setup"
    /\ apc = "idle"
    /\ p \in RegularPlugins
    /\ p \notin Range(_callbacks)
    /\ AttachEffect(p)
    /\ registered' = IF p \in Range(registered) THEN registered ELSE Append(registered, p)
    /\ apc' = "setitem"
    /\ attach_arg' = p
    /\ UNCHANGED <<pc, _plugins, _display_plugins, _framestores, _run, finished,
                   frame_count, frame_number_current, execution_times,
                   finished_callback_handles, i, exc, stop_at, stop_iteration,
                   stop_calls>>
    /\ UNCHANGED obsvars
    /\ UNCHANGED tickvars
    /\ UNCHANGED profile_calls
    /\ UNCHANGED <<attach_count, attach_raised, detached, detach_count, detach_handle,
                   dpc, odvars, step>>
    /\ UNCHANGED <<workervars, framevars, lockvars, callvars>>

\* attach_plugin, lines 174-176: self._plugins[handle] = plugin, one line of
\* OrderedDict.__setitem__ a step, then the log message of line 175, which
\* may raise, and the return.
attach_plugin_setitem ==
    /\ apc \in SetitemStages
    /\ OdBecomes(Setitem("attach", apc, attach_arg), curr)
    /\ IF SetitemNext(apc, attach_arg) = "done"
       THEN /\ apc' = "idle"
            /\ attach_raised' = LogRaises(attach_arg)
       ELSE /\ apc' = SetitemNext(apc, attach_arg)
            /\ UNCHANGED attach_raised
    /\ UNCHANGED <<pc, _callbacks, _display_plugins, _framestores, _callback_names,
                   _run, finished, frame_count, frame_number_current,
                   execution_times, finished_callback_handles, i, exc, registered,
                   stop_at, stop_iteration, stop_calls, profile_calls>>
    /\ UNCHANGED obsvars
    /\ UNCHANGED tickvars
    /\ UNCHANGED <<attach_count, attach_arg, detached, detach_count, detach_handle,
                   dpc, step>>
    /\ UNCHANGED <<workervars, framevars, lockvars, callvars>>

\* attach_display_plugin(plugin): only remembered; attached when run() begins.
attach_display_plugin(p) ==
    /\ pc = "setup"
    /\ apc = "idle"
    /\ p \in DisplayPlugins
    /\ p \notin Range(_display_plugins)
    /\ _display_plugins' = Append(_display_plugins, p)
    /\ UNCHANGED <<pc, _callbacks, _plugins, _framestores, _callback_names, _run,
                   finished, frame_count, frame_number_current, execution_times,
                   finished_callback_handles, i, exc, registered, stop_at,
                   stop_iteration, stop_calls>>
    /\ UNCHANGED obsvars
    /\ UNCHANGED tickvars
    /\ UNCHANGED profile_calls
    /\ UNCHANGED <<workervars, framevars, lockvars, attachvars, callvars>>

\* attach_framestore(obj)
attach_framestore(s) ==
    /\ pc = "setup"
    /\ apc = "idle"
    /\ registered = <<>> /\ _display_plugins = <<>>
    /\ s \notin Range(_framestores)
    /\ s = "s2" => "s1" \in Range(_framestores)
    /\ _framestores' = Append(_framestores, s)
    /\ UNCHANGED <<pc, _callbacks, _plugins, _display_plugins, _callback_names, _run,
                   finished, frame_count, frame_number_current, execution_times,
                   finished_callback_handles, i, exc, registered, stop_at,
                   stop_iteration, stop_calls>>
    /\ UNCHANGED obsvars
    /\ UNCHANGED tickvars
    /\ UNCHANGED profile_calls
    /\ UNCHANGED <<workervars, framevars, lockvars, attachvars, callvars>>

\* The positions of the scheduler thread in the tick loop.
LoopPcs == {"while", "grab", "dispatch", "remove_finished"}

\* detach_callback, line 160: plugin.stop(), the one stop of a plugin that
\* is detached.
StopsAfterDetach(st, h) == IF h \in Plugins THEN Bump(st, h) ELSE st

\* Thread.start(), as main() calls it: run() begins in its own thread.
start ==
    /\ pc = "setup"
    /\ apc = "idle"
    /\ pc' = "attach_display"
    /\ i' = 1
    /\ UNCHANGED progvars
    /\ UNCHANGED <<exc, registered, stop_at, stop_iteration, stop_calls>>
    /\ UNCHANGED obsvars
    /\ UNCHANGED tickvars
    /\ UNCHANGED profile_calls
    /\ UNCHANGED <<workervars, framevars, lockvars, attachvars, callvars>>

(***************************************************************************)
(* stop(): the external API.  Any thread may call it at any time after the *)
(* scheduler thread was started; main() calls it when it leaves.           *)
(***************************************************************************)

\* Where the scheduler thread is: before the run flag is set, in the tick
\* loop (and where), or past it.
Phase ==
    CASE pc \in {"attach_display", "start_plugins", "open_stores"} -> "startup"
      [] pc \in LoopPcs -> pc
      [] OTHER -> "after"

stop_sets_finished ==
    /\ pc # "setup"
    /\ stop_at = "never"
    /\ _run' = FALSE
    /\ finished' = TRUE
    /\ stop_at' = Phase
    /\ stop_iteration' = IF pc \in LoopPcs THEN iteration ELSE 0
    /\ stop_calls' = IF pc = "dispatch" THEN Len(tick_calls) ELSE 0
    /\ UNCHANGED <<pc, _callbacks, _plugins, _display_plugins, _framestores,
                   _callback_names, frame_count, frame_number_current,
                   execution_times, finished_callback_handles, i, exc, registered>>
    /\ UNCHANGED obsvars
    /\ UNCHANGED tickvars
    /\ UNCHANGED profile_calls
    /\ UNCHANGED <<workervars, framevars, lockvars, attachvars, callvars>>

stop ==
    /\ pc # "setup"
    /\ stop_at = "never"
    /\ _run' = FALSE
    /\ stop_at' = Phase
    /\ stop_iteration' = IF pc \in LoopPcs THEN iteration ELSE 0
    /\ stop_calls' = IF pc = "dispatch" THEN Len(tick_calls) ELSE 0
    /\ UNCHANGED <<pc, _callbacks, _plugins, _display_plugins, _framestores,
                   _callback_names, finished, frame_count, frame_number_current,
                   execution_times, finished_callback_handles, i, exc, registered>>
    /\ UNCHANGED obsvars
    /\ UNCHANGED tickvars
    /\ UNCHANGED profile_calls
    /\ UNCHANGED <<workervars, framevars, lockvars, attachvars, callvars>>

(***************************************************************************)
(* run(): the start-up phase, lines 194-219.  It is outside the try block: *)
(* an exception here leaves run() at once.                                 *)
(***************************************************************************)

\* line 194: map(self.attach_plugin, self._display_plugins), one display
\* plugin a round: attach_plugin up to the handle that attach_callback
\* returns (lines 168-173; a handle that is attached is a ValueError, which
\* ends run()), then self._plugins[handle] = plugin (line 174), one line of
\* __setitem__ a step.
run_attach_display ==
    /\ pc = "attach_display"
    /\ IF step = "begin"
       THEN /\ IF i <= Len(_display_plugins)
               THEN IF _display_plugins[i] \in Range(_callbacks)
                    THEN /\ pc' = "raised"
                         /\ UNCHANGED <<_callbacks, _callback_names, i, step>>
                    ELSE /\ AttachEffect(_display_plugins[i])
                         /\ step' = "setitem"
                         /\ UNCHANGED <<pc, i>>
               ELSE /\ pc' = "start_plugins"
                    /\ i' = 1
                    /\ UNCHANGED <<_callbacks, _callback_names, step>>
            /\ UNCHANGED <<odvars, _plugins>>
       ELSE /\ step \in SetitemStages
            /\ OdBecomes(Setitem("scheduler", step, _display_plugins[i]), curr)
            /\ IF SetitemNext(step, _display_plugins[i]) = "done"
               THEN /\ step' = "begin"
                    /\ i' = i + 1
               ELSE /\ step' = SetitemNext(step, _display_plugins[i])
                    /\ UNCHANGED i
            /\ UNCHANGED <<pc, _callbacks, _callback_names>>
    /\ UNCHANGED <<_display_plugins, _framestores, _run, finished, frame_count,
                   frame_number_current, execution_times, finished_callback_handles,
                   exc, registered, stop_at, stop_iteration, stop_calls>>
    /\ UNCHANGED obsvars
    /\ UNCHANGED tickvars
    /\ UNCHANGED profile_calls
    /\ UNCHANGED callervars
    /\ UNCHANGED <<workervars, framevars, lockvars, callvars>>

\* lines 198-203: plugin.start(self.frame_capture) for every plugin that the
\* iteration over self._plugins.itervalues() gives, one round a step: the
\* iterator goes to the node that the node it stands on has as its next,
\* and the value of the key of that node is read from the dict.  A key that
\* the dict does not have is a KeyError, which ends run(), as a start()
\* that raises does.  started counts the calls that returned.
run_start_plugin ==
    /\ pc = "start_plugins"
    /\ LET n == _plugins_links[curr].next
           h == _plugins_links[n].key
       IN
       IF n = RootNode
       THEN /\ pc' = "open_stores"
            /\ i' = 1
            /\ OdBecomes(OdSame, RootNode)
            /\ UNCHANGED started
       ELSE IF h \notin _plugins_keys
       THEN /\ pc' = "raised"
            /\ OdBecomes(OdSame, RootNode)
            /\ UNCHANGED <<started, i>>
       ELSE \E ok \in BOOLEAN :
               IF ok
               THEN /\ started' = Bump(started, h)
                    /\ i' = i + 1
                    /\ pc' = pc
                    /\ OdBecomes(OdSame, n)
               ELSE /\ pc' = "raised"
                    /\ OdBecomes(OdSame, RootNode)
                    /\ UNCHANGED <<started, i>>
    /\ UNCHANGED <<_callbacks, _display_plugins, _framestores, _callback_names,
                   _run, finished, frame_count, frame_number_current,
                   execution_times, finished_callback_handles>>
    /\ UNCHANGED <<exc, registered, stop_at, stop_iteration, stop_calls, stopped, calls, opened,
                   closed, stored>>
    /\ UNCHANGED tickvars
    /\ UNCHANGED profile_calls
    /\ UNCHANGED <<callervars, step>>
    /\ UNCHANGED <<workervars, framevars, lockvars, callvars>>

\* A generator over self._plugins.itervalues() that any() reads (lines 209
\* and 212) ends with KeyError when it comes to a key that the dict does not
\* have, and it comes to it unless any() has its answer from a plugin before.
GeneratorRaises(order, keys) ==
    IF \A k \in 1..Len(order) : order[k] \in keys THEN {FALSE}
    ELSE IF order[1] \notin keys THEN {TRUE}
    ELSE BOOLEAN

\* lines 206-207: s.open(schema) for every frame store; lines 209-219: the
\* plugins are asked for shows_windows and uses_color (a KeyError of the
\* generator ends run()), the run flag is set and execution_times gets one
\* entry per callback name.
run_open_store ==
    /\ pc = "open_stores"
    /\ IF i <= Len(_framestores)
       THEN /\ \E ok \in BOOLEAN :
                  IF ok
                  THEN /\ opened' = Bump(opened, _framestores[i])
                       /\ i' = i + 1
                       /\ pc' = pc
                  ELSE /\ pc' = "raised"
                       /\ UNCHANGED <<opened, i>>
            /\ UNCHANGED <<_run, execution_times>>
       ELSE \E raises \in GeneratorRaises(_plugins, _plugins_keys) :
               IF raises
               THEN /\ pc' = "raised"
                    /\ UNCHANGED <<_run, execution_times, opened, i>>
               ELSE /\ _run' = TRUE
                    /\ execution_times' =
                           {identifier(p) : p \in _callback_names} \cup {"TOTAL"}
                    /\ pc' = "while"
                    /\ i' = 1
                    /\ UNCHANGED opened
    /\ UNCHANGED attachvars
    /\ UNCHANGED <<_callbacks, _plugins, _display_plugins, _framestores,
                   _callback_names, finished, frame_count, frame_number_current,
                   finished_callback_handles>>
    /\ UNCHANGED <<exc, registered, stop_at, stop_iteration, stop_calls, started, stopped, calls,
                   closed, stored>>
    /\ UNCHANGED tickvars
    /\ UNCHANGED profile_calls
    /\ UNCHANGED <<workervars, framevars, lockvars, callvars>>

(***************************************************************************)
(* run(): the tick loop, lines 216-341, inside try ... finally.            *)
(***************************************************************************)

\* An exception that nothing in the loop catches: the finally block (line
\* 344) runs the cleanup and the exception then propagates out of run().
RaiseWithoutFinally ==
    /\ pc' = "raised"
    /\ i' = i
    /\ exc' = TRUE

Raise ==
    /\ pc' = "stop_plugins"
    /\ i' = 1
    /\ exc' = TRUE

\* line 223: while self._run
WhileAlways == TRUE

WhileCond == _run

run_while ==
    /\ pc = "while"
    /\ IF WhileCond
       THEN /\ pc' = "grab"
            /\ iteration' = iteration + 1
       ELSE /\ pc' = "stop_plugins"
            /\ UNCHANGED iteration
    /\ i' = 1
    /\ UNCHANGED progvars
    /\ UNCHANGED obsvars
    /\ UNCHANGED <<exc, registered, stop_at, stop_iteration, stop_calls, last_grab, tick_callbacks,
                   tick_calls, finished_tick>>
    /\ UNCHANGED profile_calls
    /\ UNCHANGED <<workervars, framevars, lockvars, attachvars, callvars>>

\* line 231: on EOFError the loop calls self.stop(), which clears the flag.
RunAfterEOFKept == _run

RunAfterEOF == FALSE

\* line 264: frame_count is incremented only when a frame is dispatched.
FrameCountAfterGrabAlways(o) == frame_count + 1

FrameCountAfterGrab(o) == IF o = "frame" THEN frame_count + 1 ELSE frame_count

\* lines 224-266: one call of grab_next_frame() and what the loop does with
\* its outcome before the callbacks are called.  A source that has served
\* limit grabs has nothing left but its end.
grab(limit) ==
    /\ pc = "grab"
    /\ \E o \in GrabOutcomes, k \in Skips :
          /\ o = "EOFError" \/ iteration <= limit
          /\ last_grab' = o
          /\ frame_count' = FrameCountAfterGrab(o)
          /\ IF o = "frame"
             THEN /\ frame_number_current' = frame_number_current + k
                  /\ finished_callback_handles' = <<>>
                  /\ tick_callbacks' = _callbacks
                  /\ tick_calls' = <<>>
                  /\ stored' = [s \in Stores |-> 0]
                  /\ pc' = "dispatch"
                  /\ i' = 1
                  /\ UNCHANGED <<_run, exc>>
             ELSE /\ UNCHANGED <<frame_number_current,
                                 finished_callback_handles, tick_callbacks, tick_calls,
                                 stored>>
                  /\ IF o = "Exception"
                     THEN Raise /\ UNCHANGED _run
                     ELSE /\ _run' = IF o = "EOFError" THEN RunAfterEOF ELSE _run
                          /\ pc' = "while"
                          /\ UNCHANGED <<i, exc>>
    /\ UNCHANGED <<_callbacks, _plugins, _display_plugins, _framestores,
                   _callback_names, finished, execution_times>>
    /\ UNCHANGED <<started, stopped, calls, opened, closed>>
    /\ UNCHANGED <<finished_tick, iteration, registered, stop_at, stop_iteration, stop_calls>>
    /\ UNCHANGED profile_calls
    /\ UNCHANGED <<workervars, framevars, lockvars, attachvars, callvars>>

run_grab == grab(MaxGrabs)

\* line 270: the callback is due when the source's frame number is a
\* multiple of its period.
IsDueByCount(n) == frame_count % n = 0

IsDue(n) == frame_number_current % n = 0

\* lines 313-315: PluginFinished is caught inside the for loop, which goes on
\* with the next callback.
NextAfterFinishedBreak(k) == Len(_callbacks) + 1

NextAfterFinished(k) == k + 1

\* lines 284-296 and 302: ret_state is the dict that the callback returned,
\* alone ("dict", "empty_dict") or behind a frame ("tuple", "tuple_empty");
\* the frame stores are called when it has a key.  Here they are called
\* for every dict.
StoresDeltaOfAnyDict(ret) == ret \in {"dict", "tuple", "empty_dict", "tuple_empty"}

StoresDelta(ret) == ret \in {"dict", "tuple"}

\* lines 269-315: one round of the for loop over self._callbacks, with a
\* callback whose call does one of rets: it raises PluginFinished, it raises
\* something else (TypeError when the call does not pass what the callback
\* takes), or it returns.
dispatch(rets) ==
    /\ pc = "dispatch"
    /\ IF i > Len(_callbacks)
       THEN /\ pc' = "remove_finished"
            /\ i' = 1
            /\ UNCHANGED <<execution_times, finished_callback_handles, exc, calls,
                           stored, tick_calls, finished_tick>>
       ELSE IF ~IsDue(every(_callbacks[i]))
       THEN /\ i' = i + 1
            /\ pc' = pc
            /\ UNCHANGED <<execution_times, finished_callback_handles, exc, calls,
                           stored, tick_calls, finished_tick>>
       ELSE \E ret \in rets :
              LET p == _callbacks[i] IN
              /\ calls' = Bump(calls, p)
              /\ tick_calls' = Append(tick_calls, p)
              /\ CASE ret = "PluginFinished" ->
                        /\ finished_callback_handles' =
                               Append(finished_callback_handles, p)
                        /\ finished_tick' = [finished_tick EXCEPT ![p] = frame_count]
                        /\ i' = NextAfterFinished(i)
                        /\ pc' = pc
                        /\ UNCHANGED <<execution_times, exc, stored>>
                   [] ret \in {"Exception", "TypeError"} ->
                        /\ Raise
                        /\ UNCHANGED <<execution_times, finished_callback_handles,
                                       stored, finished_tick>>
                   [] OTHER ->
                        /\ stored' = IF StoresDelta(ret)
                                     THEN [s \in Stores |->
                                             IF s \in Range(_framestores)
                                             THEN stored[s] + 1 ELSE stored[s]]
                                     ELSE stored
                        /\ execution_times' = execution_times \cup {identifier(p)}
                        /\ i' = i + 1
                        /\ pc' = pc
                        /\ UNCHANGED <<finished_callback_handles, exc, finished_tick>>
    /\ UNCHANGED <<_callbacks, _plugins, _display_plugins, _framestores,
                   _callback_names, _run, finished, frame_count, frame_number_current>>
    /\ UNCHANGED <<started, stopped, opened, closed>>
    /\ UNCHANGED <<last_grab, tick_callbacks, iteration, registered,
                   stop_at, stop_iteration, stop_calls>>
    /\ UNCHANGED profile_calls
    /\ UNCHANGED <<workervars, framevars, lockvars, attachvars, arguments, parameters>>

\* The for loop, what the calls return and the frame stores get not looked at.
callback(rets) ==
    /\ dispatch(rets)
    /\ UNCHANGED <<cb_ret, cb_stores>>

run_callback == callback(Returns)

\* lines 325-326: when no callback is left after the removal, the loop calls
\* self.stop(), which clears the run flag.
RunAfterTickKept == _run

RunAfterTick == IF _callbacks = <<>> THEN FALSE ELSE _run

\* Lines 322-323 for the handle h: cn = self._callback_names[handle[1]] and
\* execution_times.pop(cn), a KeyError when another handle of the tick had
\* the same name.
PopExecutionTime(h) ==
    IF identifier(h) \in execution_times
    THEN /\ execution_times' = execution_times \ {identifier(h)}
         /\ i' = i + 1
         /\ pc' = pc
         /\ UNCHANGED exc
    ELSE /\ Raise
         /\ UNCHANGED execution_times

\* lines 320-341, what follows the callbacks of a tick, a step of it:
\*   "begin"        for a finished handle, detach_callback up to line 157
\*                  (a handle that is not in the list any more is a
\*                  ValueError); with no handle left, lines 325-331, the
\*                  stop on an empty callback list and the check of the
\*                  run flag under the lock, which leaves the loop
\*   "pop" ...      line 159, self._plugins.pop(handle), one line of
\*   "unlink_next"  OrderedDict.pop a step; its KeyError is caught (line
\*                  162) and lines 322-323 follow
\*   "stop"         lines 160-161, plugin.stop(), and lines 322-323
\*   "profile"      lines 333-336, the profiler, the lock released
\*   "waitkey"      lines 338-341, cv2.waitKey or raw_input, which wait
remove_finished ==
    /\ pc = "remove_finished"
    /\ LET h == finished_callback_handles[i] IN
       CASE step = "begin" /\ i <= Len(finished_callback_handles) ->
              /\ IF h \notin Range(_callbacks)
                 THEN /\ Raise
                      /\ UNCHANGED <<_callbacks, step>>
                 ELSE /\ _callbacks' = Remove(_callbacks, h)
                      /\ step' = "pop"
                      /\ UNCHANGED <<pc, i, exc>>
              /\ UNCHANGED <<odvars, _plugins, stopped, execution_times, _run,
                             profile_calls, stored>>
         [] step \in PopStages ->
              /\ OdBecomes(Pop("scheduler", step, h), curr)
              /\ IF PopNext(step, h) = "KeyError"
                 THEN /\ PopExecutionTime(h)
                      /\ step' = "begin"
                 ELSE /\ step' = PopNext(step, h)
                      /\ UNCHANGED <<pc, i, exc, execution_times>>
              /\ UNCHANGED <<_callbacks, stopped, _run, profile_calls, stored>>
         [] step = "stop" ->
              /\ stopped' = StopsAfterDetach(stopped, h)
              /\ PopExecutionTime(h)
              /\ step' = "begin"
              /\ UNCHANGED <<odvars, _plugins, _callbacks, _run, profile_calls, stored>>
         [] step = "begin" /\ i > Len(finished_callback_handles) ->
              /\ _run' = RunAfterTick
              /\ IF _run'
                 THEN /\ step' = "profile"
                      /\ UNCHANGED <<pc, i, stored>>
                 ELSE /\ pc' = "stop_plugins"
                      /\ i' = 1
                      /\ stored' = [s \in Stores |-> 0]
                      /\ UNCHANGED step
              /\ UNCHANGED <<odvars, _plugins, _callbacks, stopped, execution_times,
                             exc, profile_calls>>
         [] step = "profile" ->
              /\ profile_calls' = profile_calls + 1
              /\ step' = "waitkey"
              /\ UNCHANGED <<odvars, _plugins, _callbacks, stopped, execution_times,
                             exc, _run, pc, i, stored>>
         [] step = "waitkey" ->
              /\ pc' = "while"
              /\ i' = 1
              /\ step' = "begin"
              /\ stored' = [s \in Stores |-> 0]
              /\ UNCHANGED <<odvars, _plugins, _callbacks, stopped, execution_times,
                             exc, _run, profile_calls>>
    /\ UNCHANGED <<_display_plugins, _framestores, _callback_names, finished,
                   frame_count, frame_number_current, finished_callback_handles>>
    /\ UNCHANGED <<started, calls, opened, closed>>
    /\ UNCHANGED tickvars
    /\ UNCHANGED <<registered, stop_at, stop_iteration, stop_calls>>

run_remove_finished ==
    /\ remove_finished
    /\ UNCHANGED <<workervars, framevars, lockvars, callervars, callvars>>

(***************************************************************************)
(* run(): the cleanup, lines 344-351.                                      *)
(***************************************************************************)

\* lines 346-347: plugin.stop() for every plugin that the iteration over
\* self._plugins.itervalues() gives, one round a step.  A key that the dict
\* does not have is a KeyError when its value is read: it leaves the
\* finally block, the plugins behind it are not stopped and the frame stores
\* are not closed.
run_stop_plugin ==
    /\ pc = "stop_plugins"
    /\ LET n == _plugins_links[curr].next
           h == _plugins_links[n].key
       IN
       IF n = RootNode
       THEN /\ pc' = "close_stores"
            /\ i' = 1
            /\ OdBecomes(OdSame, RootNode)
            /\ UNCHANGED <<stopped, exc>>
       ELSE IF h \notin _plugins_keys
       THEN /\ pc' = "raised"
            /\ exc' = TRUE
            /\ OdBecomes(OdSame, RootNode)
            /\ UNCHANGED <<stopped, i>>
       ELSE /\ stopped' = Bump(stopped, h)
            /\ i' = i + 1
            /\ pc' = pc
            /\ OdBecomes(OdSame, n)
            /\ UNCHANGED exc
    /\ UNCHANGED <<_callbacks, _display_plugins, _framestores, _callback_names,
                   _run, finished, frame_count, frame_number_current,
                   execution_times, finished_callback_handles>>
    /\ UNCHANGED <<started, calls, opened, closed, stored>>
    /\ UNCHANGED tickvars
    /\ UNCHANGED <<registered, stop_at, stop_iteration, stop_calls>>
    /\ UNCHANGED profile_calls
    /\ UNCHANGED <<callervars, step>>
    /\ UNCHANGED <<workervars, framevars, lockvars, callvars>>

\* lines 348-351: s.close() for every frame store; then the exception, if
\* there is one, leaves run(), and otherwise finished is set.
run_close_store ==
    /\ pc = "close_stores"
    /\ IF i <= Len(_framestores)
       THEN /\ closed' = Bump(closed, _framestores[i])
            /\ i' = i + 1
            /\ pc' = pc
            /\ UNCHANGED finished
       ELSE /\ pc' = IF exc THEN "raised" ELSE "done"
            /\ finished' = ~exc
            /\ UNCHANGED <<closed, i>>
    /\ UNCHANGED <<_callbacks, _plugins, _display_plugins, _framestores,
                   _callback_names, _run, frame_count, frame_number_current,
                   execution_times, finished_callback_handles>>
    /\ UNCHANGED <<started, stopped, calls, opened, stored>>
    /\ UNCHANGED tickvars
    /\ UNCHANGED <<exc, registered, stop_at, stop_iteration, stop_calls>>
    /\ UNCHANGED profile_calls
    /\ UNCHANGED <<workervars, framevars, lockvars, attachvars, callvars>>

Next ==
    \/ \E p \in Plugins : attach_plugin(p)
    \/ attach_plugin_setitem
    \/ \E p \in Plugins : attach_display_plugin(p)
    \/ \E s \in Stores : attach_framestore(s)
    \/ start
    \/ stop
    \/ run_attach_display
    \/ run_start_plugin
    \/ run_open_store
    \/ run_while
    \/ run_grab
    \/ run_callback
    \/ run_remove_finished
    \/ run_stop_plugin
    \/ run_close_store

\* The scheduler as constructed, the worker-backed plugin left alone.
InitScheduler ==
    Init /\ WorkerAtRest /\ FrameAtRest /\ LockAtRest /\ AttachAtRest /\ CallAtRest

Spec == InitScheduler /\ [][Next]_vars

(***************************************************************************)
(* The scheduler with detach_plugin: the user detaches a plugin before the *)
(* start, or another thread does at any time after.  detach_plugin holds   *)
(* no lock: the scheduler thread runs between its steps.                   *)
(***************************************************************************)

\* The detach_plugin and detach_callback calls of a run.
MaxDetach == 1

\* callback_func of a call of attach_callback or detach_callback: the
\* function f for the calls made with f; for a plugin it is
\* plugin.push_frame, which stands for the plugin.
callback_func(c) ==
    IF c \in {"f", "f_every_2", "f_every_0", "f_every_float"} THEN "f" ELSE c

\* every of a call, as a number: 1 is the default, and the float 2.0 is the
\* number 2 (every_is_int tells the two apart).
every_of(c) ==
    CASE c \in {"every_0", "f_every_0"} -> 0
      [] c \in {"f_every_2", "f_every_float", "every_float"} -> 2
      [] OTHER -> every(c)

\* attach_callback, line 128: handle = (every, callback_func).  Python
\* compares tuples item by item and numbers by value, 2.0 == 2: the handle
\* (2.0, f) is equal to the handle (2, f).
handle(c) == <<every_of(c), callback_func(c)>>

\* handle in self._callbacks, lines 130 and 153: an item of the list is
\* equal to the handle.
Attached(c, cbs) == \E k \in 1..Len(cbs) : handle(cbs[k]) = handle(c)

\* self._callbacks.remove(handle), line 154: the first item that is equal
\* to the handle is taken out.
RemoveHandle(cbs, c) ==
    LET k == CHOOSE j \in 1..Len(cbs) :
                 /\ handle(cbs[j]) = handle(c)
                 /\ \A m \in 1..(j - 1) : handle(cbs[m]) # handle(c)
    IN SubSeq(cbs, 1, k - 1) \o SubSeq(cbs, k + 1, Len(cbs))

\* The detaching thread is in no call: it has made none, or its last call
\* returned or raised.
DetachRest == {"idle", "returned", "ValueError", "AttributeError", "KeyError"}

\* The objects that have no attribute identifier.
NoIdentifier == {"no_identifier"}

\* detach_plugin, lines 180-184, the loop over self._plugins.iteritems():
\* from the node n on, the key of a node and then its value are read, until
\* the value is the plugin p.  A key that the dict does not have (it is
\* being popped, or its node is linked and its value not stored yet) is a
\* KeyError.
RECURSIVE LookupFrom(_, _, _)
LookupFrom(n, p, fuel) ==
    IF n = RootNode \/ fuel = 0 THEN "not_found"
    ELSE IF _plugins_links[n].key \notin _plugins_keys THEN "KeyError"
    ELSE IF _plugins_links[n].key = p THEN "found"
    ELSE LookupFrom(_plugins_links[n].next, p, fuel - 1)

Lookup(p) == LookupFrom(_plugins_links[RootNode].next, p, Len(_plugins_links))

\* detach_plugin(plugin), lines 178-188, called by the user before the thread
\* is started, or by another thread or by a callback at any time after: the
\* handle of the plugin is looked up in _plugins, and detach_callback is
\* called with it.  A plugin that is not there is only logged, with its
\* identifier (line 188).  No lock is held.
detach_plugin(p) ==
    /\ dpc \in DetachRest
    /\ detach_count < MaxDetach
    /\ detach_count' = detach_count + 1
    /\ dpc' = CASE Lookup(p) = "found" -> "remove"
                [] Lookup(p) = "KeyError" -> "KeyError"
                [] OTHER -> IF p \in NoIdentifier THEN "AttributeError" ELSE "returned"
    /\ detach_handle' = IF Lookup(p) = "found" THEN p ELSE "none"
    /\ UNCHANGED <<attach_count, attach_arg, attach_raised, apc, detached, odvars, step>>
    /\ UNCHANGED <<schedvars, workervars, framevars, lockvars, callvars>>

\* detach_callback(handle), lines 151-163, called by the user.
detach_callback(h) ==
    /\ dpc \in DetachRest
    /\ detach_count < MaxDetach
    /\ detach_count' = detach_count + 1
    /\ dpc' = "remove"
    /\ detach_handle' = h
    /\ UNCHANGED <<attach_count, attach_arg, attach_raised, apc, detached, odvars, step>>
    /\ UNCHANGED <<schedvars, workervars, framevars, lockvars, callvars>>

\* detach_callback, lines 153-157: the item that is equal to the handle is
\* removed from _callbacks; a handle that is not in the list (any more) is a
\* ValueError.  No lock is held: the scheduler thread may take steps before
\* and after.  The for loop of line 269 goes over the list itself: what is
\* removed under it moves the handles behind it one place to the front.
detach_callback_remove ==
    /\ dpc = "remove"
    /\ IF Attached(detach_handle, _callbacks)
       THEN /\ _callbacks' = RemoveHandle(_callbacks, detach_handle)
            /\ dpc' = "pop"
       ELSE /\ dpc' = "ValueError"
            /\ UNCHANGED _callbacks
    /\ UNCHANGED <<pc, _plugins, _display_plugins, _framestores, _callback_names,
                   _run, finished, frame_count, frame_number_current,
                   execution_times, finished_callback_handles, i, exc, registered,
                   stop_at, stop_iteration, stop_calls, profile_calls>>
    /\ UNCHANGED obsvars
    /\ UNCHANGED tickvars
    /\ UNCHANGED <<attach_count, attach_arg, attach_raised, apc, detached,
                   detach_count, detach_handle, odvars, step>>
    /\ UNCHANGED <<workervars, framevars, lockvars, callvars>>

\* detach_callback, line 159: self._plugins.pop(handle), one line of
\* OrderedDict.pop a step; the KeyError of a handle that the dict (or its
\* map of nodes) does not have is caught (line 162) and the call returns.
\* The entry in _callback_names stays.
detach_callback_pop ==
    /\ dpc \in PopStages
    /\ OdBecomes(Pop("detach", dpc, detach_handle), curr)
    /\ dpc' = IF PopNext(dpc, detach_handle) = "KeyError"
              THEN "returned" ELSE PopNext(dpc, detach_handle)
    /\ registered' = IF dpc = "pop" /\ detach_handle \in _plugins_keys
                     THEN Remove(registered, detach_handle) ELSE registered
    /\ UNCHANGED <<pc, _callbacks, _display_plugins, _framestores, _callback_names,
                   _run, finished, frame_count, frame_number_current,
                   execution_times, finished_callback_handles, i, exc,
                   stop_at, stop_iteration, stop_calls, profile_calls>>
    /\ UNCHANGED obsvars
    /\ UNCHANGED tickvars
    /\ UNCHANGED <<attach_count, attach_arg, attach_raised, apc, detached,
                   detach_count, detach_handle, step>>
    /\ UNCHANGED <<workervars, framevars, lockvars, callvars>>

\* detach_callback, lines 160-161: plugin.stop(), and the log message, which
\* reads plugin.identifier: for an object without it the call ends with
\* AttributeError, the plugin detached and stopped.
detach_callback_stop ==
    /\ dpc = "stop"
    /\ stopped' = StopsAfterDetach(stopped, detach_handle)
    /\ detached' = Append(detached, detach_handle)
    /\ dpc' = IF detach_handle \in NoIdentifier THEN "AttributeError" ELSE "returned"
    /\ UNCHANGED <<pc, _callbacks, _plugins, _display_plugins, _framestores,
                   _callback_names, _run, finished, frame_count,
                   frame_number_current, execution_times,
                   finished_callback_handles, i, exc, registered, stop_at,
                   stop_iteration, stop_calls, profile_calls>>
    /\ UNCHANGED <<started, calls, opened, closed, stored>>
    /\ UNCHANGED tickvars
    /\ UNCHANGED <<attach_count, attach_arg, attach_raised, apc, detach_count,
                   detach_handle, odvars, step>>
    /\ UNCHANGED <<workervars, framevars, lockvars, callvars>>

\* Number of iterations the frame source serves in a run with detach_plugin.
DetachGrabs == 1

detach_grab == grab(DetachGrabs)

\* The steps of a run with a detaching thread; no frame store is attached.
DetachNext ==
    \/ \E p \in Plugins : attach_plugin(p)
    \/ attach_plugin_setitem
    \/ \E p \in Plugins : attach_display_plugin(p)
    \/ \E p \in Plugins : detach_plugin(p)
    \/ detach_callback_remove
    \/ detach_callback_pop
    \/ detach_callback_stop
    \/ start
    \/ stop
    \/ run_attach_display
    \/ run_start_plugin
    \/ run_open_store
    \/ run_while
    \/ detach_grab
    \/ run_callback
    \/ run_remove_finished
    \/ run_stop_plugin
    \/ run_close_store

SpecDetach == InitScheduler /\ [][DetachNext]_vars

(***************************************************************************)
(* The scenario of one plugin that finishes: a synthetic source of         *)
(* ScenarioFrames frames, each with the next frame number, then EOFError   *)
(* (capture/synth.py); one plugin with every = 1 whose process_frame is    *)
(* that of MyPlugin of examples/chain.py and raises PluginFinished in its  *)
(* FinishAfter-th call.  run() calls its push_frame with the six arguments *)
(* of line 274: push_frame takes these, or it is BlockingPlugin.push_frame *)
(* of plugin.py, which takes seven.  main() may call stop() at any time.   *)
(***************************************************************************)

ScenarioFrames == 10

\* The n that MyPlugin is constructed with: with 3 its fifth call raises
\* PluginFinished (examples/chain.py, line 39, constructs it with 5, and
\* then the seventh call raises).
ScenarioN == 3

\* MyPlugin.process_frame, examples/chain.py, lines 19-24, in the call made
\* when _i calls have returned: the test of _i against _n comes before the
\* increment of _i, and a call that does not raise returns a dict.
process_frame(_i, _n) == IF _i > _n THEN "PluginFinished" ELSE "dict"

\* The call of process_frame that raises PluginFinished: _i is 0 at first
\* and grows by one in every call that returns.
FinishAfter == ScenarioN + 2

\* start(), for the scenario's registration: the plugin "a" and nothing else.
scenario_start ==
    /\ registered = <<"a">>
    /\ start

\* plugin.start() of the scenario's plugin returns.
scenario_start_plugin ==
    /\ run_start_plugin
    /\ pc' # "raised"

\* grab_next_frame() of the synthetic source.
scenario_grab ==
    /\ grab(ScenarioFrames)
    /\ last_grab' = IF frame_count < ScenarioFrames THEN "frame" ELSE "EOFError"
    /\ last_grab' = "frame" => frame_number_current' = frame_number_current + 1

\* The for loop over the callbacks with the scenario's plugin: push_frame
\* (as BlockingPlugin.push_frame does, plugin.py, lines 293-307) hands what
\* process_frame returns or raises to run(), when the call enters it; a call
\* that does not enter raises TypeError.
scenario_callback ==
    callback({IF Enters(arguments)
              THEN process_frame(calls["a"], ScenarioN) ELSE "Exception"})

ScenarioNext ==
    \/ attach_plugin("a")
    \/ attach_plugin_setitem
    \/ scenario_start
    \/ stop
    \/ run_attach_display
    \/ scenario_start_plugin
    \/ run_open_store
    \/ run_while
    \/ scenario_grab
    \/ scenario_callback
    \/ run_remove_finished
    \/ run_stop_plugin
    \/ run_close_store

\* The scheduler thread, once started, keeps running, the synthetic source
\* returns from every grab and the plugin from every call.
ScenarioInit ==
    /\ Init /\ WorkerAtRest /\ FrameAtRest /\ LockAtRest /\ AttachAtRest
    /\ CallOfRun

SpecScenario == ScenarioInit /\ [][ScenarioNext]_vars /\ WF_vars(ScenarioNext)

(***************************************************************************)
(* The frame stores in a run (main.py, lines 269-315): frame stores and    *)
(* plugins are attached, run() calls every due callback with six           *)
(* arguments, and what the callback returned decides whether the frame     *)
(* stores are called for it (lines 284-305).  A callback takes the six     *)
(* arguments, or it is push_frame of a class of plugin.py, which takes     *)
(* seven: such a call raises TypeError and returns nothing.                *)
(***************************************************************************)

\* Number of iterations the frame source serves in such a run.
SinkGrabs == 2

sink_grab == grab(SinkGrabs)

\* What the call of a callback that is entered can do: return None, the
\* busy marker False, a frame, a dict without or with keys, a frame and a
\* dict without or with keys, or raise.
CallOutcomes == {"None", "False", "ndarray", "empty_dict", "dict", "tuple_empty",
                 "tuple", "PluginFinished", "Exception"}

\* lines 302-305: the calls s.store(cn, buf, ..., ret_state) that run()
\* makes for what the n-th call of the callback p returned: when the dict
\* has a key, one for every attached frame store, in the order of the list,
\* with the name of the callback (line 271) and the dict, which is named by
\* the call that returned it.
StoreCalls(p, n, ret, stores) ==
    IF StoresDelta(ret)
    THEN [k \in 1..Len(stores) |->
             [store |-> stores[k], callback_name |-> identifier(p),
              ret_state |-> <<p, n>>]]
    ELSE <<>>

\* One round of the for loop: what the call did and the store calls made
\* for it are kept.
sink_callback ==
    \E ret \in IF Enters(arguments) THEN CallOutcomes ELSE {"TypeError"} :
       /\ dispatch({ret})
       /\ IF Len(tick_calls') > Len(tick_calls)
          THEN /\ cb_ret' = ret
               /\ cb_stores' = StoreCalls(_callbacks[i], calls'[_callbacks[i]], ret,
                                          _framestores)
          ELSE UNCHANGED <<cb_ret, cb_stores>>

SinkNext ==
    \/ \E s \in Stores : attach_framestore(s)
    \/ \E p \in Plugins : attach_plugin(p)
    \/ attach_plugin_setitem
    \/ start
    \/ run_attach_display
    \/ run_start_plugin
    \/ run_open_store
    \/ run_while
    \/ sink_grab
    \/ sink_callback
    \/ run_remove_finished
    \/ run_stop_plugin
    \/ run_close_store

SinkInit ==
    /\ Init /\ WorkerAtRest /\ FrameAtRest /\ LockAtRest /\ AttachAtRest
    /\ CallOfRun

SpecSink == SinkInit /\ [][SinkNext]_vars

(***************************************************************************)
(* A worker-backed plugin: NonBlockingPlugin (plugin.py, lines 310-384)    *)
(* and PluginChain with threaded set (lines 161-288).  Two threads: the    *)
(* scheduler, which calls push_frame() once a tick and stop() when the     *)
(* plugin is detached or the run is over, and the plugin's own thread in   *)
(* run().  Every queue operation is one step; a blocking put or get is a   *)
(* step that is enabled only when the queue has room or an item.           *)
(***************************************************************************)

MaxPushes == 3

\* What process_frame of a NonBlockingPlugin does with an input: it returns
\* None, a non-empty dict or a frame, or it raises.
ProcessReturns == {"None", "dict", "ndarray", "Exception", "PluginFinished"}

\* What process_frame of a child of a chain does with an input: it returns
\* None, a non-empty dict, a frame or both, or it raises.
ChildProcessReturns == {"None", "dict", "ndarray", "tuple", "Exception",
                        "PluginFinished"}

Raises == {"Exception", "PluginFinished"}

\* Queue.put / put_nowait: there is room while the queue holds less than
\* maxsize items.
CanPutAlways(q) == TRUE

CanPut(q) == Len(q) < QueueMaxsize

\* lines 352-356: put_nowait, and Queue.Full is swallowed.
ArgAfterPutNowaitOverwrite(q, x) == <<x>>

ArgAfterPutNowait(q, x) == IF CanPut(q) THEN Append(q, x) ELSE q

\* lines 370-372: return False on Queue.Empty.
BusyMarkerNone == Return(FALSE, 0, 0)

BusyMarker == Return(TRUE, 0, 0)

\* Queue.get / get_nowait takes the item out of the queue.
ResAfterGetPeek(q) == q

ResAfterGet(q) == Tail(q)

\* lines 360-369: what NonBlockingPlugin.push_frame returns for a result.
PushReturn(r) ==
    CASE r.val = "tuple"   -> Return(FALSE, r.of, r.of)
      [] r.val = "dict"    -> Return(FALSE, 0, r.of)
      [] r.val = "ndarray" -> Return(FALSE, r.of, 0)
      [] OTHER             -> Return(FALSE, 0, 0)

\* main.py: what raised out of the callback is caught when it is
\* PluginFinished (lines 313-315) and the handle is kept for the removal; any
\* other exception leaves the loop for the finally block (line 344).
AfterRaise(v) == IF v = "PluginFinished" THEN "except_finished" ELSE "finally"

\* main.py, lines 250-274: a tick in which the plugin is due begins; the
\* scheduler calls push_frame with the frame and the fresh state.  A call
\* that does not pass what push_frame takes raises TypeError before a line
\* of push_frame runs, and the exception leaves the tick loop.
push_frame_call ==
    /\ spc = "idle"
    /\ pushes < MaxPushes
    /\ pushes' = pushes + 1
    /\ frame_original' = Append(frame_original, pushes + 1)
    /\ IF Enters(arguments)
       THEN /\ spc' = IF kind = "PluginChain" THEN "chain_get" ELSE "put_nowait"
            /\ UNCHANGED last_ret
       ELSE /\ spc' = AfterRaise("TypeError")
            /\ last_ret' = Raised("TypeError")
    /\ state' = {}
    /\ buf' = 0
    /\ sink_calls' = <<>>
    /\ UNCHANGED <<kind, _arg_queue, _res_queue, wpc, args, result, accepted,
                   received, poll_empty>>
    /\ UNCHANGED <<processed, called>>
    /\ UNCHANGED <<schedvars, framevars, lockvars, attachvars, callvars>>

\* NonBlockingPlugin.push_frame, lines 352-356.
push_frame_put_nowait ==
    /\ spc = "put_nowait"
    /\ _arg_queue' = ArgAfterPutNowait(_arg_queue, pushes)
    /\ accepted' = IF CanPut(_arg_queue) THEN Append(accepted, pushes) ELSE accepted
    /\ spc' = "get_nowait"
    /\ UNCHANGED <<kind, _res_queue, wpc, args, result, pushes, received,
                   last_ret, poll_empty, state, buf, sink_calls>>
    /\ UNCHANGED <<processed, called>>
    /\ UNCHANGED frame_original
    /\ UNCHANGED <<schedvars, framevars, lockvars, attachvars, callvars>>

\* NonBlockingPlugin.push_frame, lines 357-372.
push_frame_get_nowait ==
    /\ spc = "get_nowait"
    /\ poll_empty' = (_res_queue = <<>>)
    /\ IF _res_queue = <<>>
       THEN /\ last_ret' = BusyMarker
            /\ UNCHANGED <<_res_queue, received, sink_calls>>
       ELSE LET r == Head(_res_queue) IN
            /\ _res_queue' = ResAfterGet(_res_queue)
            /\ received' = Append(received, r.of)
            /\ last_ret' = PushReturn(r)
            /\ sink_calls' = IF PushReturn(r).delta # 0
                             THEN Append(sink_calls, "push_frame") ELSE sink_calls
    /\ spc' = "return"
    /\ UNCHANGED <<kind, _arg_queue, wpc, args, result, pushes, accepted,
                   state, buf>>
    /\ UNCHANGED <<processed, called>>
    /\ UNCHANGED frame_original
    /\ UNCHANGED <<schedvars, framevars, lockvars, attachvars, callvars>>

\* PluginChain.push_frame, lines 261-264: a blocking get; an exception that
\* the thread left in the queue is raised again, in the scheduler thread.
chain_push_frame_get ==
    /\ spc = "chain_get"
    /\ _res_queue # <<>>
    /\ LET r == Head(_res_queue) IN
       /\ _res_queue' = ResAfterGet(_res_queue)
       /\ received' = Append(received, r.of)
       /\ IF r.val \in Raises
          THEN /\ spc' = AfterRaise(r.val)
               /\ last_ret' = Raised(r.val)
          ELSE /\ spc' = "chain_put"
               /\ last_ret' = Return(FALSE, 0, r.of)
    /\ poll_empty' = FALSE
    /\ UNCHANGED <<kind, _arg_queue, wpc, args, result, pushes, accepted,
                   state, buf, sink_calls>>
    /\ UNCHANGED <<processed, called>>
    /\ UNCHANGED frame_original
    /\ UNCHANGED <<schedvars, framevars, lockvars, attachvars, callvars>>

\* PluginChain.push_frame, lines 266-288: a blocking put; then the state the
\* thread returned, when there is one, is stored and returned.
chain_push_frame_put ==
    /\ spc = "chain_put"
    /\ CanPut(_arg_queue)
    /\ _arg_queue' = Append(_arg_queue, pushes)
    /\ accepted' = Append(accepted, pushes)
    /\ sink_calls' = IF last_ret.delta # 0
                     THEN Append(sink_calls, "push_frame") ELSE sink_calls
    /\ spc' = "return"
    /\ UNCHANGED <<kind, _res_queue, wpc, args, result, pushes, received,
                   last_ret, poll_empty, state, buf>>
    /\ UNCHANGED <<processed, called>>
    /\ UNCHANGED frame_original
    /\ UNCHANGED <<schedvars, framevars, lockvars, attachvars, callvars>>

\* main.py, lines 298-300, the merge of what push_frame returned into the
\* state of tick t, as it changes the reserved key.  The dict that a
\* NonBlockingPlugin returns is the delta of its process_frame, without a
\* reserved key.  The dict that a worker-backed chain returns is the whole
\* state dict that the push_frame of tick d put into the argument queue
\* (plugin.py, lines 257, 231 and 270-272): the state object of tick d, with
\* its reserved keys, as it is by now; 'FRAME_ORIGINAL' is not a key of
\* SPECIAL_STATE_KEYS, so that the merge replaces it.
ReservedAfterMerge(fo, k, t, d) ==
    IF k = "PluginChain" /\ d # 0 THEN [fo EXCEPT ![t] = fo[d]] ELSE fo

\* main.py, lines 284-305: what the scheduler does with the value returned.
run_return ==
    /\ spc = "return"
    /\ IF last_ret.busy
       THEN UNCHANGED <<state, buf, sink_calls, frame_original>>
       ELSE /\ buf' = IF last_ret.frame # 0 THEN last_ret.frame ELSE buf
            /\ frame_original' = ReservedAfterMerge(frame_original, kind, pushes,
                                                    last_ret.delta)
            /\ state' = IF last_ret.delta # 0
                        THEN state \cup {last_ret.delta} ELSE state
            /\ sink_calls' = IF last_ret.delta # 0
                             THEN Append(sink_calls, "run") ELSE sink_calls
    /\ spc' = "idle"
    /\ UNCHANGED <<kind, _arg_queue, _res_queue, wpc, args, result, pushes,
                   accepted, received, last_ret, poll_empty>>
    /\ UNCHANGED <<processed, called>>
    /\ UNCHANGED <<schedvars, framevars, lockvars, attachvars, callvars>>

\* main.py, after push_frame raised.  PluginFinished: the tick goes on and
\* the removal detaches the handle, which stops the plugin (lines 320-321 and
\* 159-160).  Any other exception: the tick loop is left and the finally block
\* stops the plugins (lines 344-347).
run_except ==
    /\ spc \in {"except_finished", "finally"}
    /\ spc' = "stop_put"
    /\ UNCHANGED <<kind, _arg_queue, _res_queue, wpc, args, result, pushes,
                   accepted, received, last_ret, poll_empty, state, buf,
                   sink_calls>>
    /\ UNCHANGED <<processed, called>>
    /\ UNCHANGED frame_original
    /\ UNCHANGED <<schedvars, framevars, lockvars, attachvars, callvars>>

\* main.py, lines 160 and 346-347: the scheduler calls plugin.stop().
stop_call ==
    /\ spc = "idle"
    /\ spc' = "stop_put"
    /\ UNCHANGED <<kind, _arg_queue, _res_queue, wpc, args, result, pushes,
                   accepted, received, last_ret, poll_empty, state, buf,
                   sink_calls>>
    /\ UNCHANGED <<processed, called>>
    /\ UNCHANGED frame_original
    /\ UNCHANGED <<schedvars, framevars, lockvars, attachvars, callvars>>

\* stop(), lines 344 and 213: self._arg_queue.put(None), a blocking put.
stop_put ==
    /\ spc = "stop_put"
    /\ CanPut(_arg_queue)
    /\ _arg_queue' = Append(_arg_queue, Sentinel)
    /\ spc' = IF kind = "PluginChain" THEN "join" ELSE "stopped"
    /\ UNCHANGED <<kind, _res_queue, wpc, args, result, pushes, accepted,
                   received, last_ret, poll_empty, state, buf, sink_calls>>
    /\ UNCHANGED <<processed, called>>
    /\ UNCHANGED frame_original
    /\ UNCHANGED <<schedvars, framevars, lockvars, attachvars, callvars>>

\* PluginChain.stop, line 214: self.join() returns when the thread has ended.
stop_join ==
    /\ spc = "join"
    /\ wpc \in {"exited", "dead"}
    /\ spc' = "stopped"
    /\ UNCHANGED <<kind, _arg_queue, _res_queue, wpc, args, result, pushes,
                   accepted, received, last_ret, poll_empty, state, buf,
                   sink_calls>>
    /\ UNCHANGED <<processed, called>>
    /\ UNCHANGED frame_original
    /\ UNCHANGED <<schedvars, framevars, lockvars, attachvars, callvars>>

\* run(), lines 377-380 and 224-227: a blocking get; None ends the loop.
worker_get ==
    /\ wpc = "get"
    /\ _arg_queue # <<>>
    /\ _arg_queue' = Tail(_arg_queue)
    /\ IF Head(_arg_queue) = Sentinel
       THEN /\ wpc' = "exited"
            /\ UNCHANGED args
       ELSE /\ wpc' = "process_frame"
            /\ args' = Append(args, Head(_arg_queue))
    /\ UNCHANGED <<kind, _res_queue, result, spc, pushes, accepted, received,
                   last_ret, poll_empty, state, buf, sink_calls>>
    /\ UNCHANGED <<processed, called>>
    /\ UNCHANGED frame_original
    /\ UNCHANGED <<schedvars, framevars, lockvars, attachvars, callvars>>

\* run(): PluginChain.run has the computation in try ... except Exception
\* (lines 229-233); NonBlockingPlugin.run has no try at all (lines 375-384).
CaughtNever(k) == FALSE

Caught(k) == k = "PluginChain"

\* _call_plugins, lines 246-256: for a child that returned a dict, alone or
\* behind a frame, state.update(ret_state) writes the dict into the state;
\* for None there is no update, for a frame the update is that of {}.
Writes(r) == r \in {"dict", "tuple"}

\* _call_plugins, line 256: state.update(ret_state) writes what a child
\* returned into the dict it was given, the state object of the tick of the
\* input n (lines 266 and 231 pass the object, no copy is made), in the
\* thread of the chain.  While no later tick has begun that is the dict of
\* the present tick, which gets the result of the input as the thread
\* computes it; afterwards it is the dict of a tick that is over.
StateAfterUpdate(st, n, wrote) == IF wrote /\ n = pushes THEN st \cup {n} ELSE st

\* run(), lines 383 and 231: the computation.  NonBlockingPlugin.run calls
\* process_frame of the plugin; nothing catches what it raises: the
\* exception ends the thread.  PluginChain.run calls _call_plugins (lines
\* 238-257), a loop over the children, one child a step: what the child
\* returned is written into the state of the input, and after the last
\* child (frame, state) is the value to put; what a child raises leaves the
\* loop, is caught (line 233) and is the value to put.
worker_process_frame ==
    /\ wpc = "process_frame"
    /\ LET n == Head(args)
           chain == kind = "PluginChain"
           last == kind # "PluginChain" \/ called + 1 = Len(ChainChildren)
       IN \E r \in IF chain THEN ChildProcessReturns ELSE ProcessReturns :
          IF r \in Raises \/ last
          THEN /\ result' = Value(n, IF chain /\ r \notin Raises THEN "tuple" ELSE r)
               /\ wpc' = IF r \notin Raises THEN "put"
                         ELSE IF Caught(kind) THEN "put_exception" ELSE "dead"
               /\ state' = StateAfterUpdate(state, n, chain /\ Writes(r))
               /\ args' = Tail(args)
               /\ processed' = Append(processed, n)
               /\ called' = 0
          ELSE /\ state' = StateAfterUpdate(state, n, Writes(r))
               /\ called' = called + 1
               /\ UNCHANGED <<result, wpc, args, processed>>
    /\ UNCHANGED <<kind, _arg_queue, _res_queue, spc, pushes, accepted, received,
                   last_ret, poll_empty, buf, sink_calls>>
    /\ UNCHANGED frame_original
    /\ UNCHANGED <<schedvars, framevars, lockvars, attachvars, callvars>>

\* run(), lines 383, 231 and 235-236: self._res_queue.put(...), a blocking
\* put; after the put of an exception the chain's thread leaves the loop.
worker_put ==
    /\ wpc \in {"put", "put_exception"}
    /\ CanPut(_res_queue)
    /\ _res_queue' = Append(_res_queue, result)
    /\ wpc' = IF wpc = "put" THEN "get" ELSE "exited"
    /\ UNCHANGED <<kind, _arg_queue, args, result, spc, pushes, accepted,
                   received, last_ret, poll_empty, state, buf, sink_calls>>
    /\ UNCHANGED <<processed, called>>
    /\ UNCHANGED frame_original
    /\ UNCHANGED <<schedvars, framevars, lockvars, attachvars, callvars>>

WorkerNext ==
    \/ push_frame_call
    \/ push_frame_put_nowait
    \/ push_frame_get_nowait
    \/ chain_push_frame_get
    \/ chain_push_frame_put
    \/ run_return
    \/ run_except
    \/ stop_call
    \/ stop_put
    \/ stop_join
    \/ worker_get
    \/ worker_process_frame
    \/ worker_put

\* A plugin of either class, constructed and started.
WorkerInit ==
    /\ Init /\ FrameAtRest /\ LockAtRest /\ AttachAtRest
    /\ \E c \in WorkerKinds : WorkerConstructed(c)
    /\ CallOfPushFrame

SpecWorker == WorkerInit /\ [][WorkerNext]_vars

\* The steps of the plugin's thread, and the steps of the scheduler inside a
\* call of push_frame or stop that it has begun.
WorkerThreadNext == worker_get \/ worker_process_frame \/ worker_put

InCallNext ==
    \/ push_frame_put_nowait
    \/ push_frame_get_nowait
    \/ chain_push_frame_get
    \/ chain_push_frame_put
    \/ run_return
    \/ run_except
    \/ stop_put
    \/ stop_join

\* Both threads are scheduled again and again, and every computation of the
\* plugin ends: a step of a thread that stays possible is taken.  When the
\* scheduler calls push_frame or stop is left open.
SpecWorkerFair ==
    /\ WorkerInit
    /\ [][WorkerNext]_vars
    /\ WF_vars(WorkerThreadNext)
    /\ WF_vars(InCallNext)

(***************************************************************************)
(* The FrameState of a tick.  The scheduler builds a fresh dict at the     *)
(* start of every tick (main.py, lines 250-253), hands it to every         *)
(* callback, merges what a callback returns with state_update (lines       *)
(* 284-300), and writes the control input into it at the end of the tick   *)
(* (lines 338-339).  One of the callbacks is an inline PluginChain         *)
(* (threaded not set) of two children; the dict the children receive is    *)
(* the scheduler's dict itself, and _call_plugins changes it in place      *)
(* (plugin.py, lines 238-257).                                             *)
(***************************************************************************)

MaxTicks == 2

MaxCallbacks == 3

\* A dict that sets key k to v, and no other key.
Delta(k, v) == [j \in StateKeys |-> IF j = k THEN v ELSE <<>>]

\* The dict without keys.
NoDelta == [j \in StateKeys |-> <<>>]

\* What process_frame of a child returns as its state: a detection under an
\* accumulating key, or a value under another key.
DeltasOf(c) ==
    IF c = "A"
    THEN {Delta(DETECTED_OBJECT, <<"X1">>), Delta("n", <<"1">>)}
    ELSE {Delta(DETECTED_OBJECT, <<"X2">>), Delta("n", <<"2">>)}

Deltas == DeltasOf("A") \cup DeltasOf("B")

\* What cv2.waitKey gives, masked with 0xFF: no key (-1), or the key q.
KeyCodes == {"255", "113"}

\* The value process_frame of child c returns or raises; a frame the child
\* made is named after the child.
ChildReturn(k, f, d) == [kind |-> k, frame |-> f, delta |-> d]

ChildReturns(c) ==
    {ChildReturn("None", "buf", NoDelta), ChildReturn("ndarray", c, NoDelta),
     ChildReturn("PluginFinished", "buf", NoDelta),
     ChildReturn("Exception", "buf", NoDelta)}
    \cup {ChildReturn("dict", "buf", d) : d \in DeltasOf(c)}
    \cup {ChildReturn("tuple", c, d) : d \in DeltasOf(c)}

\* The items of new that old does not hold, appended to old in their order.
RECURSIVE AppendNew(_, _)
AppendNew(old, new) ==
    IF new = <<>> THEN old
    ELSE AppendNew(IF Head(new) \in Range(old) THEN old ELSE Append(old, Head(new)),
                   Tail(new))

\* Every key of d replaces the key of s.
state_update_overwrite(s, d) ==
    [k \in DOMAIN s |-> IF d[k] = <<>> THEN s[k] ELSE d[k]]

\* state_update(state, ret_state), which main.py imports from store.py
\* (line 19) and store.py does not define: a key of SPECIAL_STATE_KEYS
\* gains the items of the delta it does not hold yet, any other key of the
\* delta replaces the key of the state.
state_update(s, d) ==
    [k \in DOMAIN s |->
        IF d[k] = <<>> THEN s[k]
        ELSE IF k \in SPECIAL_STATE_KEYS THEN AppendNew(s[k], d[k])
        ELSE d[k]]

\* The merge that leaves the dict as it was.
dict_update_ignore(s, d) == s

\* dict.update, plugin.py line 256: every key of d replaces the key of s.
dict_update(s, d) == [k \in DOMAIN s |-> IF d[k] = <<>> THEN s[k] ELSE d[k]]

\* plugin.py, lines 250-255: the frame the next child receives.
FrameAfter(f, r) == IF r.kind \in {"tuple", "ndarray"} THEN r.frame ELSE f

\* main.py, lines 216-253: the next tick, with its fresh state.  A chain
\* that raised PluginFinished was detached (lines 320-323).
frame_begin ==
    /\ fpc = "idle"
    /\ ticks < MaxTicks
    /\ ticks' = ticks + 1
    /\ frame_state' = FreshState
    /\ merge_log' = <<>>
    /\ chain_frame' = "buf"
    /\ chain_entry' = FreshState
    /\ chain_log' = <<>>
    /\ chain_out' = IF chain_out = "PluginFinished" THEN chain_out ELSE "none"
    /\ fpc' = "callbacks"
    /\ tick_buf' = NewFrame
    /\ call_log' = <<>>
    /\ UNCHANGED <<last_key, children, call_cvwaitkey, _waitkey_delay>>
    /\ UNCHANGED <<schedvars, workervars, lockvars, attachvars, callvars>>

\* What a callback returns to run(): a dict, a frame, or both.  No frame is 0.
CallbackReturn(f, d) == [frame |-> f, delta |-> d]

CallbackReturns(k) ==
    {CallbackReturn(0, d) : d \in Deltas}
    \cup {CallbackReturn(k, NoDelta), CallbackReturn(k, Delta("n", <<"1">>))}

\* The callbacks, other than the chain, called so far in this tick.
CallbackCalls == {j \in 1..Len(call_log) : call_log[j].who = "callback"}

\* A frame that a callback returns is not used.
BufAfterKept(b, r) == b

\* main.py, lines 289-294: buf, ret_state = ret, or buf = ret.
BufAfter(b, r) == IF r.frame # 0 THEN r.frame ELSE b

\* main.py, lines 269-300: a callback is called with the buffer and the
\* state of the tick; the frame it returns is the buffer from now on, the
\* dict it returns is merged into the state of the tick.
frame_callback ==
    /\ fpc = "callbacks"
    /\ Cardinality(CallbackCalls) < MaxCallbacks
    /\ \E r \in CallbackReturns(Len(call_log) + 1) :
          /\ frame_state' = state_update(frame_state, r.delta)
          /\ merge_log' = IF r.delta # NoDelta THEN Append(merge_log, r.delta)
                          ELSE merge_log
          /\ tick_buf' = BufAfter(tick_buf, r)
          /\ call_log' = Append(call_log, [who |-> "callback", buf |-> tick_buf,
                                           frame |-> r.frame])
    /\ UNCHANGED <<fpc, ticks, last_key, children, chain_frame, chain_entry,
                   chain_log, chain_out, call_cvwaitkey, _waitkey_delay>>
    /\ UNCHANGED <<schedvars, workervars, lockvars, attachvars, callvars>>

\* PluginChain.push_frame, not threaded (plugin.py, lines 259-268): the
\* scheduler calls it, and it calls _call_plugins with the state of the tick.
\* A call that does not pass what push_frame takes raises TypeError, which
\* nothing in the loop catches.
inline_push_frame_call ==
    /\ fpc = "callbacks"
    /\ chain_out = "none"
    /\ chain_log = <<>>
    /\ IF Enters(arguments)
       THEN /\ fpc' = "chain"
            /\ chain_entry' = frame_state
            /\ UNCHANGED chain_out
       ELSE /\ fpc' = "aborted"
            /\ chain_out' = "TypeError"
            /\ UNCHANGED chain_entry
    /\ chain_frame' = "buf"
    /\ call_log' = Append(call_log, [who |-> "chain", buf |-> tick_buf, frame |-> 0])
    /\ UNCHANGED <<ticks, frame_state, last_key, merge_log, children, chain_log,
                   tick_buf, call_cvwaitkey, _waitkey_delay>>
    /\ UNCHANGED <<schedvars, workervars, lockvars, attachvars, callvars>>

\* PluginChain._call_plugins, lines 239-256: one turn of the loop.  Nothing
\* in _call_plugins or push_frame catches what process_frame raises: it
\* leaves both, and the scheduler catches PluginFinished (main.py, lines
\* 313-315) and nothing else.
_call_plugins ==
    /\ fpc = "chain"
    /\ Len(chain_log) < Len(children)
    /\ LET c == children[Len(chain_log) + 1] IN
       \E r \in ChildReturns(c) :
          /\ chain_log' = Append(chain_log, [child |-> c, frame |-> chain_frame,
                                             state |-> frame_state, ret |-> r])
          /\ IF r.kind \in Raises
             THEN /\ chain_out' = r.kind
                  /\ fpc' = IF r.kind = "PluginFinished" THEN "callbacks" ELSE "aborted"
                  /\ UNCHANGED <<frame_state, chain_frame>>
             ELSE /\ chain_frame' = FrameAfter(chain_frame, r)
                  /\ frame_state' = dict_update(frame_state, r.delta)
                  /\ UNCHANGED <<fpc, chain_out>>
    /\ UNCHANGED <<ticks, last_key, merge_log, children, chain_entry, tick_buf,
                   call_log, call_cvwaitkey, _waitkey_delay>>
    /\ UNCHANGED <<schedvars, workervars, lockvars, attachvars, callvars>>

\* plugin.py, lines 257 and 270-286, and main.py, lines 284-300:
\* _call_plugins returns (frame, state), push_frame returns the state (it
\* was constructed with return_state set), and the scheduler merges what it
\* got, the dict of the tick itself, into the dict of the tick.
inline_push_frame_return ==
    /\ fpc = "chain"
    /\ Len(chain_log) = Len(children)
    /\ chain_out' = "returned"
    /\ frame_state' = state_update(frame_state, frame_state)
    /\ fpc' = "callbacks"
    /\ UNCHANGED <<ticks, last_key, merge_log, children, chain_frame, chain_entry,
                   chain_log, tick_buf, call_log, call_cvwaitkey, _waitkey_delay>>
    /\ UNCHANGED <<schedvars, workervars, lockvars, attachvars, callvars>>

\* main.py, lines 338-341, the end of the tick.  When a plugin shows a
\* window the control input is read and written into the state of the tick.
\* When none does and single_frame_step was given, raw_input waits for a
\* line; at the end of the input it raises EOFError, which leaves the loop.
\* Otherwise nothing is read and the state of the tick is left as it is.
frame_end ==
    /\ fpc = "callbacks"
    /\ IF call_cvwaitkey
       THEN /\ \E k \in KeyCodes :
                  /\ frame_state' = [frame_state EXCEPT !["KEY"] = <<k>>]
                  /\ last_key' = <<k>>
            /\ fpc' = "idle"
       ELSE /\ UNCHANGED <<frame_state, last_key>>
            /\ IF _waitkey_delay = 0
               THEN \E line \in BOOLEAN : fpc' = IF line THEN "idle" ELSE "aborted"
               ELSE fpc' = "idle"
    /\ UNCHANGED <<ticks, merge_log, children, chain_frame, chain_entry, chain_log,
                   chain_out, tick_buf, call_log, call_cvwaitkey, _waitkey_delay>>
    /\ UNCHANGED <<schedvars, workervars, lockvars, attachvars, callvars>>

FrameNext ==
    \/ frame_begin
    \/ frame_callback
    \/ inline_push_frame_call
    \/ _call_plugins
    \/ inline_push_frame_return
    \/ frame_end

\* What the end of a tick depends on: whether a plugin shows a window and,
\* when none does, whether single_frame_step was given.  cv2.waitKey gives
\* the same values with either delay, so that one delay stands for both.
WaitKeyConfigs == {<<TRUE, 1>>, <<FALSE, 0>>, <<FALSE, 1>>}

\* The scheduler of a run, and the caller of push_frame of the chain.
FrameInit ==
    /\ Init /\ WorkerAtRest /\ LockAtRest /\ AttachAtRest
    /\ \E c \in WaitKeyConfigs, a \in ChainArguments :
          FrameConstructed(c[1], c[2], a)
    /\ CallOfPushFrame

SpecFrame == FrameInit /\ [][FrameNext]_vars

(***************************************************************************)
(* FrameStoreManager.store (store.py, lines 140-143): under the lock of    *)
(* the manager, store_state of every frame store in turn.  store() does    *)
(* not know its callers: the model lets two threads call it at any time.   *)
(* store_state of a frame store may raise (the base class raises           *)
(* NotImplementedError, line 111); the with statement releases the lock on *)
(* the way out.                                                            *)
(***************************************************************************)

MaxStoreCalls == 2

\* threading.Lock.acquire that does not wait for the holder.
LockFreeAlways(l) == TRUE

\* threading.Lock: acquire goes on when nobody holds the lock.
LockFree(l) == l = "free"

\* A thread calls store().
store_call(t) ==
    /\ caller_pc[t] = "idle"
    /\ store_calls[t] < MaxStoreCalls
    /\ store_calls' = [store_calls EXCEPT ![t] = @ + 1]
    /\ fanout' = [fanout EXCEPT ![t] = <<>>]
    /\ caller_pc' = [caller_pc EXCEPT ![t] = "acquire"]
    /\ UNCHANGED _lock
    /\ UNCHANGED <<schedvars, workervars, framevars, attachvars, callvars>>

\* Line 141: with self._lock, the blocking acquire.
store_acquire(t) ==
    /\ caller_pc[t] = "acquire"
    /\ LockFree(_lock)
    /\ _lock' = t
    /\ caller_pc' = [caller_pc EXCEPT ![t] = "fanout"]
    /\ UNCHANGED <<fanout, store_calls>>
    /\ UNCHANGED <<schedvars, workervars, framevars, attachvars, callvars>>

\* Lines 142-143: store_state of the next frame store, which returns or raises.
store_state(t) ==
    /\ caller_pc[t] = "fanout"
    /\ Len(fanout[t]) < Len(Sinks)
    /\ fanout' = [fanout EXCEPT ![t] = Append(@, Sinks[Len(@) + 1])]
    /\ \E raises \in BOOLEAN :
          caller_pc' = [caller_pc EXCEPT ![t] = IF raises THEN "raised" ELSE "fanout"]
    /\ UNCHANGED <<_lock, store_calls>>
    /\ UNCHANGED <<schedvars, workervars, framevars, attachvars, callvars>>

\* The end of the with block, reached after the last frame store or by an
\* exception: the lock is released and store() is left.
store_release(t) ==
    /\ \/ caller_pc[t] = "fanout" /\ Len(fanout[t]) = Len(Sinks)
       \/ caller_pc[t] = "raised"
    /\ _lock' = "free"
    /\ caller_pc' = [caller_pc EXCEPT ![t] = "idle"]
    /\ UNCHANGED <<fanout, store_calls>>
    /\ UNCHANGED <<schedvars, workervars, framevars, attachvars, callvars>>

StoreNext ==
    \E t \in Threads :
        \/ store_call(t)
        \/ store_acquire(t)
        \/ store_state(t)
        \/ store_release(t)

SpecStore == InitScheduler /\ [][StoreNext]_vars

(***************************************************************************)
(* Registration with any object, before the start: attach_plugin (main.py, *)
(* lines 165-176) of a plugin or of an object that lacks what a plugin     *)
(* has, attach_callback (lines 113-149) of a function, and detach_plugin   *)
(* (lines 178-188) and detach_callback (lines 151-163) of what was         *)
(* attached or was not.                                                    *)
(***************************************************************************)

MaxAttach == 3

\* The objects attach_plugin is called with: the plugins, objects that lack
\* one of the methods or the attribute every (or have a start, stop or
\* push_frame that is not callable), a plugin whose every is 0, one whose
\* every is a float, objects that have the methods and every = 1 and lack
\* the attribute identifier or the attribute shows_windows, and an object
\* whose push_frame is a callable object, not a method.
Candidates == Plugins \cup {"no_start", "no_stop", "no_push_frame", "no_every",
                            "every_0", "every_float", "no_identifier",
                            "no_shows_windows", "push_frame_object"}

\* What attach_callback is called with: the function f with every = 1 (the
\* default), 2, 0 and 2.0, an object that cannot be called, and a callable
\* object that is not a function.  The handle of an accepted call is the
\* pair (every, callback_func).
Callbacks == {"f", "f_every_2", "f_every_0", "f_every_float", "not_callable",
              "callable_object"}

\* What an object lacks of start, stop, push_frame, every.
Missing(c) ==
    CASE c = "no_start" -> {"start"}
      [] c = "no_stop" -> {"stop"}
      [] c = "no_push_frame" -> {"push_frame"}
      [] c = "no_every" -> {"every"}
      [] OTHER -> {}

\* _has_method(obj, method), lines 23-24, and hasattr(obj, 'every').
_has_method(obj, method) == method \notin Missing(obj)

\* isinstance(every, int), line 125.
every_is_int(c) == c \notin {"every_float", "f_every_float"}

\* What attach_callback raises before it changes anything, lines 123-131,
\* when the callback list is cbs: the handle (every, callback_func) is in
\* the list when a call with an equal handle was accepted before.
CallbackRaises(c, cbs) ==
    IF c = "not_callable" THEN "TypeError"
    ELSE IF ~every_is_int(c) THEN "TypeError"
    ELSE IF every_of(c) < 1 THEN "ValueError"
    ELSE IF Attached(c, cbs) THEN "ValueError"
    ELSE "none"

\* attach_plugin that leaves the check of the methods to the first use.
AttachRaisesLate(c, cbs) == CallbackRaises(c, cbs)

\* What attach_plugin(c) raises before it changes anything: lines 168-172,
\* then attach_callback with plugin.push_frame and plugin.every.
AttachRaises(c, cbs) ==
    IF ~(/\ _has_method(c, "start") /\ _has_method(c, "stop")
         /\ _has_method(c, "push_frame") /\ "every" \notin Missing(c))
    THEN "TypeError"
    ELSE CallbackRaises(c, cbs)

\* attach_callback, line 136, after the append of line 132: func_name of
\* the callback is read, which a function and a method have and a callable
\* object has not.  (Lines 139-144 catch the AttributeError of a plugin
\* without identifier and take the name of the class.)
NameRaises(c) ==
    IF c \in {"push_frame_object", "callable_object"} THEN "AttributeError" ELSE "none"

\* attach_callback(callback_func, every), lines 113-149: the checks, the
\* append of the handle (line 132), the name (lines 136-147).
attach_callback(c) ==
    /\ pc = "setup"
    /\ apc = "idle"
    /\ attach_count < MaxAttach
    /\ attach_count' = attach_count + 1
    /\ attach_arg' = c
    /\ IF CallbackRaises(c, _callbacks) # "none"
       THEN /\ attach_raised' = CallbackRaises(c, _callbacks)
            /\ UNCHANGED <<_callbacks, _callback_names>>
       ELSE /\ _callbacks' = CallbacksAfterAttach(_callbacks, c)
            /\ attach_raised' = NameRaises(c)
            /\ _callback_names' = IF NameRaises(c) = "none"
                                  THEN _callback_names \cup {callback_func(c)}
                                  ELSE _callback_names
    /\ UNCHANGED <<apc, detached, detach_count, detach_handle, dpc, odvars, step>>
    /\ UNCHANGED <<pc, _plugins, _display_plugins, _framestores, _run, finished,
                   frame_count, frame_number_current, execution_times,
                   finished_callback_handles, i, exc, registered, stop_at,
                   stop_iteration, stop_calls, profile_calls>>
    /\ UNCHANGED obsvars
    /\ UNCHANGED tickvars
    /\ UNCHANGED <<workervars, framevars, lockvars, callvars>>

\* attach_plugin(c) up to line 173: every check comes before the first
\* change, the append of line 132; then the name is made (line 136, which
\* may raise) and entered (line 147), and attach_callback returns the
\* handle.  self._plugins[handle] = plugin and the log message follow
\* (attach_plugin_setitem).
attach_plugin_call(c) ==
    /\ pc = "setup"
    /\ apc = "idle"
    /\ attach_count < MaxAttach
    /\ attach_count' = attach_count + 1
    /\ attach_arg' = c
    /\ IF AttachRaises(c, _callbacks) # "none"
       THEN /\ attach_raised' = AttachRaises(c, _callbacks)
            /\ UNCHANGED <<_callbacks, _callback_names, registered, apc>>
       ELSE IF NameRaises(c) # "none"
       THEN /\ attach_raised' = NameRaises(c)
            /\ _callbacks' = CallbacksAfterAttach(_callbacks, c)
            /\ UNCHANGED <<_callback_names, registered, apc>>
       ELSE /\ attach_raised' = "none"
            /\ AttachEffect(c)
            /\ registered' = IF c \in Range(registered)
                             THEN registered ELSE Append(registered, c)
            /\ apc' = "setitem"
    /\ UNCHANGED <<detached, detach_count, detach_handle, dpc, odvars, step>>
    /\ UNCHANGED <<pc, _plugins, _display_plugins, _framestores, _run, finished,
                   frame_count, frame_number_current, execution_times,
                   finished_callback_handles, i, exc, stop_at, stop_iteration,
                   stop_calls, profile_calls>>
    /\ UNCHANGED obsvars
    /\ UNCHANGED tickvars
    /\ UNCHANGED <<workervars, framevars, lockvars, callvars>>

AttachNext ==
    \/ \E c \in Candidates : attach_plugin_call(c)
    \/ attach_plugin_setitem
    \/ \E c \in Callbacks : attach_callback(c)
    \/ \E c \in Candidates : detach_plugin(c)
    \/ \E c \in Candidates \cup Callbacks : detach_callback(c)
    \/ detach_callback_remove
    \/ detach_callback_pop
    \/ detach_callback_stop

SpecAttach == InitScheduler /\ [][AttachNext]_vars

(***************************************************************************)
(* Properties.                                                             *)
(***************************************************************************)

\* The handles among the first k of the tick's callback list whose period
\* divides the frame number of the tick.
DueCalls(k) ==
    SelectSeq(SubSeq(tick_callbacks, 1, k),
              LAMBDA p : frame_number_current % every(p) = 0)

AllDueCalls == DueCalls(Len(tick_callbacks))

\* The loop was left: through the cleanup to the end of run(), or with an
\* exception that came out of the try block.
LoopLeft == pc = "done" \/ (pc = "raised" /\ exc)

CleanupPcs == {"stop_plugins", "close_stores", "done"}

\* C1: on every dispatched tick a plugin attached with period P is called if
\* and only if the source frame number of the tick is a multiple of P: while
\* the for loop runs, the calls made so far are exactly the due handles among
\* those the loop has passed, and when it is over they are all the due handles.
\* So a plugin attached from the start and served the frame numbers 1..n
\* without a gap has been called n div P times (periods 1 and 2 over
\* 1..4: 4 and 2 calls).
C1_PeriodicDispatch ==
    /\ pc = "dispatch" => tick_calls = DueCalls(i - 1)
    /\ pc = "remove_finished" =>
          /\ tick_calls = AllDueCalls
          /\ frame_number_current = frame_count =>
                \A p \in Range(tick_callbacks) :
                    calls[p] = frame_number_current \div every(p)

C1_Witness ==
    /\ pc = "remove_finished"
    /\ frame_number_current = 4 /\ frame_count = 4
    /\ tick_callbacks = <<"a", "b">>
    /\ calls["a"] = 4 /\ calls["b"] = 2

\* C2: a plugin that raised PluginFinished on some tick is not called on any
\* later tick, and its stop() is called exactly once in the run: by the
\* post-tick removal (or, when an exception ends that tick first, by the
\* cleanup), never by both.
C2_FinishedStoppedOnce ==
    /\ \A j \in 1..Len(tick_calls) :
          finished_tick[tick_calls[j]] \in {0, frame_count}
    /\ \A p \in Plugins :
          /\ stopped[p] <= 1
          /\ (finished_tick[p] # 0 /\ (LoopLeft \/ finished_tick[p] < frame_count))
                => stopped[p] = 1

C2_Witness ==
    /\ pc = "done"
    /\ frame_count = 3
    /\ finished_tick["a"] = 1 /\ stopped["a"] = 1
    /\ calls["a"] = 1
    /\ "c" \in Range(_plugins) /\ stopped["c"] = 1

\* C3: whenever the tick loop was left, by end-of-stream, by the external
\* stop(), by the callback list becoming empty or by an exception out of a
\* plugin, stop() has been called exactly once on every plugin still attached
\* and close() once on every attached frame store; and no store is closed
\* before every attached plugin is stopped.
C3_CleanupOnEveryExit ==
    /\ LoopLeft =>
          /\ \A p \in Range(_plugins) : stopped[p] = 1
          /\ \A s \in Range(_framestores) : closed[s] = 1
    /\ \A s \in Stores :
          closed[s] > 0 => \A p \in Range(_plugins) : stopped[p] = 1

C3_Witness ==
    /\ pc = "raised" /\ exc
    /\ last_grab = "frame"
    /\ Len(tick_calls) = 2
    /\ Len(_plugins) = 3
    /\ \A p \in Range(_plugins) : stopped[p] = 1
    /\ Len(_framestores) = 2
    /\ \A s \in Range(_framestores) : closed[s] = 1

\* C4: no execution of run() ends with a plugin whose start() was called and
\* whose stop() was never called, also when a later plugin's start() or a
\* store's open() raises in the start-up phase.
C4_NoStartWithoutStop ==
    pc \in {"done", "raised"} =>
        \A p \in Plugins : started[p] > 0 => stopped[p] > 0

\* C5: finished is true only when the cleanup is over (every plugin still
\* attached stopped, every frame store closed), and the external stop() only
\* clears the run flag: it never changes finished.
C5_FinishedAfterCleanup ==
    /\ [](finished =>
            /\ pc = "done"
            /\ \A p \in Range(_plugins) : stopped[p] >= 1
            /\ \A s \in Range(_framestores) : closed[s] >= 1)
    /\ [][stop_at' # stop_at => (finished' = finished /\ ~_run')]_vars

C5_Witness ==
    /\ finished
    /\ stop_at = "grab"
    /\ Len(_plugins) >= 2
    /\ Len(_framestores) = 2

\* C6: an external stop() made while the loop runs is seen only at a tick
\* boundary: no new iteration begins after it, and when the loop is then left
\* without an exception every plugin due on the last dispatched tick has been
\* called.
C6_StopAtTickBoundary ==
    stop_at \in LoopPcs =>
        /\ pc \in {"grab", "dispatch", "remove_finished"} => iteration = stop_iteration
        /\ (pc \in CleanupPcs /\ ~exc /\ last_grab = "frame") => tick_calls = AllDueCalls

C6_Witness ==
    /\ pc = "done"
    /\ stop_at = "dispatch" /\ stop_calls = 0
    /\ iteration = 2 /\ stop_iteration = 2
    /\ Len(tick_calls) = 3

\* C7: when the frame source raises end-of-stream, no plugin is called for
\* that iteration and no further frame is acquired: the run flag is cleared
\* and the thread goes from the loop head to the cleanup.
C7_EndOfStream ==
    last_grab = "EOFError" =>
        /\ ~_run
        /\ ~exc
        /\ pc \in {"while"} \cup CleanupPcs

C7_Witness ==
    /\ last_grab = "EOFError"
    /\ stop_at = "never"
    /\ pc = "done"
    /\ frame_count = 2
    /\ _callbacks # <<>>

\* C8: when the grab raises a non-critical error or returns no frame, the
\* tick is skipped: no plugin and no store is called, frame_count, the
\* expected frame number and the plugin list are unchanged, and the thread is
\* back at the loop head, from where it acquires the next frame (the loop
\* ends there only when an external stop() has cleared the run flag).
C8_SkippedTick ==
    /\ [](last_grab \in {"NoneFrame", "noncritical"} =>
            \/ pc \in {"while", "grab"}
            \/ stop_at \in LoopPcs /\ ~_run /\ ~exc /\ pc \in CleanupPcs)
    /\ [][(pc = "grab" /\ pc' # pc /\ last_grab' \in {"NoneFrame", "noncritical"}) =>
            /\ pc' = "while"
            /\ UNCHANGED <<frame_count, frame_number_current, _callbacks, _plugins,
                           tick_calls, finished_callback_handles, execution_times>>
            /\ UNCHANGED obsvars]_vars

C8_Witness ==
    /\ last_grab = "noncritical"
    /\ pc = "grab"
    /\ iteration = 3
    /\ frame_count = 1
    /\ stop_at = "never"

\* The order of registration: the plugins given to attach_plugin, in call
\* order, then those given to attach_display_plugin, in call order.
RegistrationOrder == registered \o _display_plugins

PositionIn(seq, p) == CHOOSE k \in 1..Len(seq) : seq[k] = p

\* C9: within a tick the plugins are called in the order of their
\* registration, those registered through attach_display_plugin after all the
\* others; and the next frame is acquired only when every plugin due on the
\* tick before has been called.
C9_InvocationOrder ==
    /\ \A j, k \in 1..Len(tick_calls) :
          j < k => PositionIn(RegistrationOrder, tick_calls[j])
                      < PositionIn(RegistrationOrder, tick_calls[k])
    /\ (pc \in {"while", "grab"} /\ last_grab = "frame") => tick_calls = AllDueCalls

C9_Witness ==
    /\ pc = "grab"
    /\ frame_count = 2
    /\ registered = <<"b", "a">>
    /\ _display_plugins = <<"c">>
    /\ tick_calls = <<"b", "a", "c">>

\* C10: when a plugin raises PluginFinished during a tick, every plugin after
\* it in the order that is due on the tick is still called on that tick.
C10_FinishedKeepsTick ==
    pc = "remove_finished" =>
        \A j, k \in 1..Len(tick_callbacks) :
            (/\ j < k
             /\ finished_tick[tick_callbacks[j]] = frame_count
             /\ frame_number_current % every(tick_callbacks[k]) = 0)
                => tick_callbacks[k] \in Range(tick_calls)

C10_Witness ==
    /\ pc = "remove_finished"
    /\ Len(tick_callbacks) = 3
    /\ finished_tick[tick_callbacks[1]] = frame_count
    /\ Len(tick_calls) = 3

\* The callback list is empty once a dispatched tick and its removal of the
\* finished plugins are over.
EmptyAfterTick ==
    /\ _callbacks = <<>>
    /\ frame_count > 0
    /\ pc \notin {"dispatch", "remove_finished"}

\* C11: whenever the callback list is empty after the post-tick removal of
\* the finished plugins, the scheduler stops itself: the thread is on the
\* cleanup path or past it (with the run flag cleared, unless an exception of
\* the removal itself sent it there), never back at the loop head or in the
\* acquisition, and from then on no frame is acquired and no plugin is called.
C11_EmptyListStops ==
    /\ [](EmptyAfterTick =>
             /\ pc \in CleanupPcs \cup {"raised"}
             /\ ~exc => ~_run)
    /\ [][EmptyAfterTick =>
             /\ frame_count' = frame_count
             /\ last_grab' = last_grab
             /\ calls' = calls]_vars

\* A run whose plugins all finished, none stopped from outside: the removal
\* left the list empty and the thread went through the cleanup to its end.
C11_Witness ==
    /\ pc = "done"
    /\ finished
    /\ _callbacks = <<>>
    /\ registered # <<>>
    /\ last_grab = "frame"
    /\ stop_at = "never"
    /\ \A p \in Range(registered) : stopped[p] = 1

\* C12 as stated: in the scenario, a run that nobody stopped from outside
\* goes on after the plugin was removed and ends at the end of the stream,
\* all ScenarioFrames frames dispatched.
C12_ContinuesToEndOfStream ==
    (pc = "done" /\ stop_at = "never") =>
        /\ last_grab = "EOFError"
        /\ frame_count = ScenarioFrames

\* C12, amended: in the scenario the plugin, whose calls run() enters, is
\* called FinishAfter times at most and stopped once at most, and nothing
\* raises; a run that was not stopped from outside while in the loop ends
\* with the plugin called exactly FinishAfter times, removed and stopped
\* once after the last call, and, the callback list being empty then, with
\* exactly FinishAfter frames dispatched: the scheduler stops itself on that
\* tick, the end of the stream is never met; and every run ends with
\* finished true.
C12_FinishesWithLastPlugin ==
    /\ [](Enters(arguments) => (pc # "raised" /\ ~exc))
    /\ [](calls["a"] <= FinishAfter /\ stopped["a"] <= 1)
    /\ []((pc = "done" /\ stop_at \notin LoopPcs) =>
             /\ calls["a"] = FinishAfter
             /\ finished_tick["a"] = FinishAfter
             /\ stopped["a"] = 1
             /\ frame_count = FinishAfter
             /\ last_grab = "frame"
             /\ _callbacks = <<>> /\ _plugins = <<>>)
    /\ Enters(arguments) => <>finished

\* The end of such a run, run() having called the plugin with six arguments
\* and nobody having called stop().
C12_Witness ==
    /\ arguments = RunArguments
    /\ pc = "done"
    /\ finished
    /\ stop_at = "never"
    /\ calls["a"] = FinishAfter
    /\ frame_count = FinishAfter
    /\ iteration = FinishAfter

\* The non-zero values of the stop-after-N-frames bound (--stop-frame of
\* util.py, stop_frame of testutils.py).  Microfview.__init__ has no such
\* parameter, new_from_commandline_args never reads args.stop_frame and run()
\* has no test of it: whatever the value, the scheduler's steps are the same.
StopFrames == 1 .. MaxGrabs

\* C13: with a stop-after-N-frames bound configured, the scheduler stops
\* itself once the bound is reached: no more than N frames are dispatched.
C13_StopFrameBound == \A n \in StopFrames : frame_count <= n

IsNonBlocking == kind = "NonBlockingPlugin"

\* C14: NonBlockingPlugin.push_frame never waits on the worker thread: in
\* whatever state the thread and the queues are, each of its two queue steps
\* can be taken at once; and when the argument queue is full the new frame is
\* dropped: the queue, with the pending input in it, and the list of accepted
\* inputs stay as they are.
C14_PushNeverWaits ==
    /\ []((IsNonBlocking /\ spc = "put_nowait") => ENABLED push_frame_put_nowait)
    /\ []((IsNonBlocking /\ spc = "get_nowait") => ENABLED push_frame_get_nowait)
    /\ [][(push_frame_put_nowait /\ ~CanPut(_arg_queue)) =>
             /\ _arg_queue' = _arg_queue
             /\ accepted' = accepted
             /\ wpc' = wpc /\ args' = args]_vars

\* The frame of the push under way was dropped: an earlier input is still
\* pending in the queue while the thread computes on the one before it.
C14_Witness ==
    /\ IsNonBlocking
    /\ spc = "get_nowait"
    /\ pushes \notin Range(accepted)
    /\ _arg_queue = <<pushes - 1>>
    /\ wpc = "process_frame"

\* C15: NonBlockingPlugin.push_frame returns the busy marker False exactly
\* when the result queue was empty at its poll; and for a busy return the
\* scheduler leaves the FrameState and the buffer as they were and no store
\* call is made for the plugin in that tick, by push_frame or by the
\* scheduler.
C15_BusyMarker ==
    /\ []((IsNonBlocking /\ spc = "return") => (last_ret.busy <=> poll_empty))
    /\ []((spc \in {"return", "idle"} /\ pushes > 0 /\ last_ret.busy) =>
             (state = {} /\ buf = 0 /\ sink_calls = <<>>))
    /\ [][(run_return /\ last_ret.busy) =>
             (state' = state /\ buf' = buf /\ sink_calls' = sink_calls)]_vars

\* A busy tick after a tick that delivered a result: the thread is computing
\* on the next input when the scheduler polls.
C15_Witness ==
    /\ IsNonBlocking
    /\ spc = "idle"
    /\ last_ret.busy
    /\ poll_empty
    /\ received # <<>>
    /\ wpc = "process_frame"

\* C16: in every reachable state a worker-backed plugin of either class has
\* at most one input in its argument queue and at most one result in its
\* result queue, and its thread computes on at most one input.
C16_SingleSlot ==
    /\ Len(_arg_queue) <= 1
    /\ Len(_res_queue) <= 1
    /\ Len(args) <= 1

\* All three at their limit: an undrained result, a pending input, and the
\* thread computing on the input between them.
C16_Witness ==
    /\ Len(_arg_queue) = 1
    /\ Len(_res_queue) = 1
    /\ Len(args) = 1
    /\ Head(_res_queue).of < Head(args)
    /\ Head(args) < Head(_arg_queue)

StrictlyIncreasing(seq) ==
    \A j, k \in 1..Len(seq) : j < k => seq[j] < seq[k]

\* C17: for a NonBlockingPlugin the results push_frame receives are, in
\* submission order, results of inputs that were accepted into the argument
\* queue: a subsequence of the accepted inputs, no input answered twice, and
\* never more results than push_frame calls.
C17_ResultsInOrder ==
    IsNonBlocking =>
        /\ StrictlyIncreasing(accepted)
        /\ StrictlyIncreasing(received)
        /\ Range(received) \subseteq Range(accepted)
        /\ Len(received) <= pushes

\* Two results received, of the first and the second input, the third one
\* accepted and not answered yet.
C17_Witness ==
    /\ IsNonBlocking
    /\ received = <<1, 2>>
    /\ accepted = <<1, 2, 3>>

\* The scheduler is inside a queue operation (or the join) made for the
\* plugin, and has to wait for the plugin's thread.
SchedulerWaits ==
    \/ spc = "stop_put" /\ ~CanPut(_arg_queue)
    \/ spc = "chain_get" /\ _res_queue = <<>>
    \/ spc = "chain_put" /\ ~CanPut(_arg_queue)
    \/ spc = "join" /\ wpc \notin {"exited", "dead"}

\* C18: the scheduler never waits in a queue operation made for a
\* worker-backed plugin, in push_frame or in stop: a thread that is still
\* computing never stalls the tick loop or the cleanup.
C18_SchedulerNeverWaits == ~SchedulerWaits

\* stop() has returned, so that nobody will ever take a result out of the
\* result queue again, and the thread is in its put on the full queue.
WorkerStuck ==
    /\ spc = "stopped"
    /\ wpc = "put"
    /\ ~CanPut(_res_queue)

\* C19: after stop() on a NonBlockingPlugin whose computations all return,
\* the thread gets to the sentinel and leaves its loop: it is never stuck
\* for good before it.
C19_WorkerExitsAfterStop == IsNonBlocking => ~WorkerStuck

\* C20: an exception other than PluginFinished raised by the computation of
\* a NonBlockingPlugin does not end the worker thread.
C20_WorkerSurvivesException ==
    IsNonBlocking => ~(wpc = "dead" /\ result.val = "Exception")

\* The computation of a NonBlockingPlugin raised PluginFinished and the
\* thread ended with it: the signal is not in the result queue and no
\* push_frame has raised it.
CompletionLost ==
    /\ IsNonBlocking
    /\ wpc = "dead"
    /\ result.val = "PluginFinished"
    /\ \A k \in 1..Len(_res_queue) : _res_queue[k].val # "PluginFinished"
    /\ last_ret.raised = "none"

\* C21: PluginFinished raised by the computation of a worker plugin inside
\* its thread is delivered through the result queue and raised again by a
\* later push_frame in the scheduler thread: it is never lost with the thread.
C21_CompletionDelivered == ~CompletionLost

Last(seq) == seq[Len(seq)]

\* C22: in a worker-backed chain an exception of the computation, PluginFinished
\* included, never ends the thread uncaught: the thread has it as the value to
\* put, puts it into the result queue and leaves its loop; the push_frame that
\* raises in the scheduler thread is the first one after the input was
\* accepted and raises that very exception; the scheduler takes PluginFinished
\* to the removal of the chain and anything else out of the tick loop to the
\* cleanup, and in both cases calls no push_frame again.  (For the calls
\* that enter push_frame: a call that raises TypeError at once gets nothing
\* from the result queue.)
C22_ChainExceptionDelivered ==
    (kind = "PluginChain") =>
        /\ wpc # "dead"
        /\ (result.val \in Raises) =>
              \/ wpc = "put_exception"
              \/ wpc = "exited" /\ _res_queue = <<result>> /\ last_ret.raised = "none"
              \/ wpc = "exited" /\ _res_queue = <<>> /\ last_ret.raised = result.val
        /\ (last_ret.raised \in Raises) =>
              /\ result = Value(Last(received), last_ret.raised)
              /\ Last(received) = Last(accepted)
              /\ pushes = Last(accepted) + 1
              /\ spc \in {"except_finished", "finally", "stop_put", "join", "stopped"}
        /\ (spc = "except_finished") => last_ret.raised = "PluginFinished"
        /\ (spc = "finally") =>
              last_ret.raised = IF Enters(arguments) THEN "Exception" ELSE "TypeError"
        /\ (last_ret.raised = "TypeError") => (~Enters(arguments) /\ received = <<>>)

\* A child raised an exception for the second input; the third push_frame
\* raised it in the scheduler thread, which has left the tick loop and
\* stopped the chain.
C22_Witness ==
    /\ kind = "PluginChain"
    /\ last_ret.raised = "Exception"
    /\ result = Value(2, "Exception")
    /\ pushes = 3
    /\ spc = "stopped"
    /\ wpc = "exited"

\* The children of the chain that raised PluginFinished in this push_frame.
FinishedChildren ==
    {children[j] : j \in {m \in 1..Len(chain_log) : chain_log[m].ret.kind = "PluginFinished"}}

\* C23: when a child of a chain raises the completion signal, only that
\* child is removed from the chain, the children after it are still called
\* in the same tick, and the chain raises the completion signal to the
\* scheduler only when it holds no child.
C23_OnlyFinishedChildRemoved ==
    /\ (fpc # "chain" /\ FinishedChildren # {}) =>
          /\ Range(children) = Range(ChainChildren) \ FinishedChildren
          /\ Len(chain_log) = Len(ChainChildren)
    /\ (chain_out = "PluginFinished") => children = <<>>

\* The greatest element of a non-empty set of numbers.
Greatest(S) == CHOOSE m \in S : \A n \in S : n =< m

\* The frame the j-th child of this push_frame must receive: the frame of
\* the last child before it that returned one, the frame of the tick when
\* none did.
ExpectedFrame(j) ==
    LET W == {m \in 1..(j - 1) : chain_log[m].ret.kind \in {"tuple", "ndarray"}}
    IN  IF W = {} THEN "buf" ELSE chain_log[Greatest(W)].ret.frame

\* The value of key k the j-th child must receive: that of the last child
\* before it whose delta holds the key, that of the state the chain was
\* called with when none does.
ExpectedValue(j, k) ==
    LET W == {m \in 1..(j - 1) : chain_log[m].ret.delta[k] # <<>>}
    IN  IF W = {} THEN chain_entry[k] ELSE chain_log[Greatest(W)].ret.delta[k]

\* C24: an inline chain calls each child once, in registration order,
\* within one push_frame, and each child receives the frame and the
\* FrameState as the replacement frames and the deltas of the children
\* before it left them.
C24_ChildrenInOrder ==
    /\ Len(chain_log) =< Len(children)
    /\ \A j \in 1..Len(chain_log) :
          /\ chain_log[j].child = children[j]
          /\ chain_log[j].frame = ExpectedFrame(j)
          /\ \A k \in StateKeys : chain_log[j].state[k] = ExpectedValue(j, k)
    /\ (chain_out = "returned") => Len(chain_log) = Len(children)

C24_Witness ==
    /\ chain_out = "returned"
    /\ Len(chain_log) = 2
    /\ chain_log[1].ret = ChildReturn("tuple", "A", Delta("n", <<"1">>))
    /\ chain_log[2].frame = "A"
    /\ chain_log[2].state["n"] = <<"1">>
    /\ chain_entry[DETECTED_OBJECT] = <<"X2">>
    /\ chain_log[2].state[DETECTED_OBJECT] = <<"X2">>

\* The deltas merged so far in this tick that hold key k.
MergesWith(k) == {m \in 1..Len(merge_log) : merge_log[m][k] # <<>>}

\* C25: merging a delta into the FrameState replaces the value of a key
\* that is not accumulating, so that merging the same delta twice gives what
\* merging it once gives; under a key of SPECIAL_STATE_KEYS it appends: of
\* two deltas with different detections both are in the state, whichever was
\* merged first, and a detection equal to one under the key is not added
\* again.
C25_MergeRule ==
    (fpc = "callbacks" /\ chain_log = <<>>) =>
        /\ \A k \in StateKeys \ SPECIAL_STATE_KEYS :
              frame_state[k] = IF MergesWith(k) = {} THEN <<>>
                               ELSE merge_log[Greatest(MergesWith(k))][k]
        /\ \A k \in StateKeys \cap SPECIAL_STATE_KEYS :
              /\ Range(frame_state[k]) = UNION {Range(merge_log[m][k]) : m \in MergesWith(k)}
              /\ Cardinality(Range(frame_state[k])) = Len(frame_state[k])
        /\ \A d \in Deltas :
              state_update(state_update(frame_state, d), d) = state_update(frame_state, d)
        /\ \A d1, d2 \in Deltas : \A k \in StateKeys \cap SPECIAL_STATE_KEYS :
              Range(state_update(state_update(frame_state, d1), d2)[k])
                  = Range(state_update(state_update(frame_state, d2), d1)[k])

C25_Witness ==
    /\ fpc = "callbacks"
    /\ chain_log = <<>>
    /\ merge_log = <<Delta(DETECTED_OBJECT, <<"X1">>), Delta(DETECTED_OBJECT, <<"X2">>),
                     Delta(DETECTED_OBJECT, <<"X1">>)>>
    /\ frame_state[DETECTED_OBJECT] = <<"X1", "X2">>

\* C26: when the first child of an inline chain returns a delta with
\* detection X1 under an accumulating key and the second child a delta with
\* detection X2 under the same key, the state of the tick holds both
\* detections after the chain has run.
C26_ChainAccumulates ==
    (/\ chain_out = "returned"
     /\ chain_log[1].ret.delta = Delta(DETECTED_OBJECT, <<"X1">>)
     /\ chain_log[2].ret.delta = Delta(DETECTED_OBJECT, <<"X2">>))
        => {"X1", "X2"} \subseteq Range(frame_state[DETECTED_OBJECT])

\* C27: the FrameState built at the start of a tick holds, under the key
\* of the control input, the last control input that was observed on an
\* earlier tick.
C27_KeyCarriedOver ==
    (fpc = "callbacks" /\ ticks > 1) => frame_state["KEY"] = last_key

\* C28: in a tick, a plugin invocation that yields a non-empty delta makes
\* every attached frame store receive exactly one store call, with the
\* identifier of the plugin and the delta, and no other store receives one;
\* an invocation that yields no value, the busy marker or an empty delta
\* (or a frame alone, or that raises) makes no frame store receive a call.
C28_OneStoreCallPerDelta ==
    [][(Len(tick_calls') = Len(tick_calls) + 1) =>
          LET p == tick_calls'[Len(tick_calls')]
              yields == cb_ret' \in {"dict", "tuple"}
              CallsOf(s) == {k \in 1..Len(cb_stores') : cb_stores'[k].store = s}
          IN /\ \A s \in Stores :
                   /\ stored'[s] - stored[s] =
                         IF yields /\ s \in Range(_framestores) THEN 1 ELSE 0
                   /\ Cardinality(CallsOf(s)) =
                         IF yields /\ s \in Range(_framestores) THEN 1 ELSE 0
             /\ \A k \in 1..Len(cb_stores') :
                   /\ cb_stores'[k].callback_name = identifier(p)
                   /\ cb_stores'[k].ret_state = <<p, calls'[p]>>]_vars

\* Two frame stores are attached; in one tick the first callback returned
\* without a delta and no store was called, the second returned a frame and
\* a dict with keys, and each of the two stores was called once for it.
C28_Witness ==
    /\ pc = "dispatch"
    /\ _framestores = <<"s1", "s2">>
    /\ Len(tick_calls) = 2
    /\ cb_ret = "tuple"
    /\ Len(cb_stores) = 2
    /\ cb_stores[1].store = "s1" /\ cb_stores[2].store = "s2"
    /\ stored["s1"] = 1 /\ stored["s2"] = 1

\* The threads that are inside the with block of store().
InFanout == {t \in Threads : caller_pc[t] \in {"fanout", "raised"}}

\* C29: FrameStoreManager.store is mutually exclusive: no two fan-outs to
\* the frame stores overlap, whichever threads call store, and the lock is
\* free whenever no store call is inside its fan-out.
C29_StoreMutuallyExclusive ==
    /\ Cardinality(InFanout) =< 1
    /\ \A t \in InFanout : _lock = t
    /\ (InFanout = {}) => _lock = "free"

C29_Witness ==
    /\ caller_pc["scheduler"] = "fanout"
    /\ fanout["scheduler"] = <<"s1">>
    /\ caller_pc["worker"] = "acquire"
    /\ store_calls["worker"] = 2
    /\ fanout["worker"] = <<>>

\* The begin_frame and end_frame calls run() has made on frame store s:
\* run() calls open (line 207), store (line 305) and close (line 348) of a
\* frame store, and nothing in main.py calls begin_frame or end_frame.
begin_frame_calls(s) == 0

end_frame_calls(s) == 0

\* C30: every attached frame store sees open once before the first tick,
\* then for every dispatched tick begin-frame, the store calls of the tick
\* and end-frame, and close once at shutdown.
C30_SinkLifecycle ==
    \A s \in Range(_framestores) :
        /\ opened[s] =< 1
        /\ closed[s] =< opened[s]
        /\ (pc \in {"dispatch", "remove_finished"}) =>
              /\ opened[s] = 1
              /\ closed[s] = 0
              /\ begin_frame_calls(s) = frame_count
              /\ end_frame_calls(s) \in {frame_count - 1, frame_count}
        /\ (pc = "done") =>
              /\ closed[s] = 1
              /\ begin_frame_calls(s) = frame_count
              /\ end_frame_calls(s) = frame_count

\* The inputs the plugin's thread is computing on: process_frame runs on
\* the very frame and state objects push_frame put into the queue (plugin.py,
\* lines 353 and 266: no copy is made).  The input of push n is the frame and
\* the state of the tick of push n.
WorkerComputesOn == IF wpc = "process_frame" THEN {Head(args)} ELSE {}

\* The scheduler is about to merge a delta into the state of the present
\* tick (main.py, lines 298-300).
SchedulerWritesState == spc = "return" /\ ~last_ret.busy /\ last_ret.delta # 0

\* C31: after the scheduler has handed a frame and a FrameState to a
\* worker-backed plugin through the argument queue, the scheduler thread does
\* not read or write that object while the thread of the plugin may access
\* it: no object is accessed by both threads at the same time.
C31_OwnershipTransferred ==
    SchedulerWritesState => pushes \notin WorkerComputesOn

\* C32 as the spec has it: a profiler that is attached is called exactly
\* once for every tick on which a frame was dispatched to the plugins, so
\* that between two ticks and after the loop, when no exception ended it, the
\* profiler has been called once for every frame dispatched.
C32_ProfilerOncePerTick ==
    (~exc /\ pc \in {"while", "grab"} \cup CleanupPcs) => profile_calls = frame_count

\* C33: attach_plugin rejects with a TypeError, when it is called, an
\* object that lacks a callable start, stop or push_frame or the attribute
\* every, and with a ValueError a period below 1 or a (period, callback) pair
\* that is attached already; a rejected attach leaves the callback list and
\* the plugin registry as they were; a call that the checks accept has
\* appended its handle to the callback list, and when it is over the plugin
\* is a key of the registry.
C33_AttachValidates ==
    [][/\ \A c \in Candidates :
            (attach_count' # attach_count /\ attach_arg' = c) =>
                /\ (Missing(c) # {}) => attach_raised' = "TypeError"
                /\ (Missing(c) = {} /\ every_is_int(c) /\ every_of(c) < 1) =>
                      attach_raised' = "ValueError"
                /\ (Missing(c) = {} /\ c \in Range(_callbacks)) =>
                      attach_raised' = "ValueError"
                /\ (attach_raised' \in {"TypeError", "ValueError"}) =>
                      /\ UNCHANGED <<_callbacks, _plugins, _plugins_keys, _callback_names>>
                      /\ apc' = "idle"
                /\ (apc' = "setitem") =>
                      /\ Missing(c) = {}
                      /\ c \notin Range(_callbacks)
                      /\ _callbacks' = Append(_callbacks, c)
       /\ (apc # "idle" /\ apc' = "idle") =>
             /\ attach_arg \in _plugins_keys'
             /\ attach_raised' = "none" => attach_arg \in Plugins]_vars

\* Three calls of attach_plugin, the last of them with the plugin a, which
\* was attached already: the call raised ValueError, and the callback list,
\* the registry and the names are as the one accepted call made them.
C33_Witness ==
    /\ attach_count = 3
    /\ attach_arg = "a"
    /\ attach_raised = "ValueError"
    /\ registered = <<"a">>
    /\ _callbacks = <<"a">>
    /\ _plugins = <<"a">>
    /\ _callback_names = {"a"}
    /\ detach_count = 0

\* The buffer the j-th callback of this tick must receive: the frame of the
\* last callback before it that returned one, the frame the source gave in
\* this tick when none did.
ExpectedBuf(j) ==
    LET W == {m \in 1..(j - 1) : call_log[m].frame # 0}
    IN  IF W = {} THEN NewFrame ELSE call_log[Greatest(W)].frame

\* C34: within a tick, when a plugin returns a replacement frame, every
\* plugin called later in the tick receives that frame as its buffer until
\* another replacement is returned, and the next tick starts again from the
\* frame the source gave, not from a replacement.
C34_ReplacementFrame ==
    /\ \A j \in 1..Len(call_log) : call_log[j].buf = ExpectedBuf(j)
    /\ (fpc \in {"callbacks", "chain"}) => tick_buf = ExpectedBuf(Len(call_log) + 1)
    /\ (fpc = "callbacks" /\ call_log = <<>>) => tick_buf = NewFrame

C34_Witness ==
    /\ ticks = 2
    /\ Len(call_log) = 4
    /\ call_log[1] = [who |-> "callback", buf |-> 0, frame |-> 1]
    /\ call_log[2] = [who |-> "chain", buf |-> 1, frame |-> 0]
    /\ call_log[3] = [who |-> "callback", buf |-> 1, frame |-> 3]
    /\ call_log[4] = [who |-> "callback", buf |-> 3, frame |-> 0]

\* C35: every execution of run() that leaves the tick loop, also one that
\* an exception out of a plugin ends, sets finished in the end: when run()
\* is over after the cleanup that followed an exception in a dispatched tick,
\* finished is set.
C35_FinishedAfterException ==
    (pc = "raised" /\ exc /\ last_grab = "frame") => finished

\* C36: a stop() call made after the scheduler thread was started, also
\* while run() is still starting the plugins and has not set the run flag
\* yet, is not lost: once stop() was called during the start-up, the run flag
\* is clear whenever the loop tests it, and no frame is dispatched.
C36_StopDuringStartupKept ==
    (stop_at = "startup") =>
        /\ (pc \in LoopPcs) => ~_run
        /\ frame_count = 0

\* C37: the removal of the finished plugins after a tick never raises out
\* of the tick loop, also when two attached plugins have the same
\* identifier: the execution-time entry of every finished handle is there to
\* be dropped.
C37_RemovalNeverRaises ==
    (pc = "remove_finished" /\ i <= Len(finished_callback_handles)) =>
        identifier(finished_callback_handles[i]) \in execution_times

\* The thread of the plugin cannot take a step.
WorkerCannotMove ==
    \/ wpc \in {"exited", "dead"}
    \/ wpc = "get" /\ _arg_queue = <<>>
    \/ wpc \in {"put", "put_exception"} /\ ~CanPut(_res_queue)

\* C38: a worker-backed chain never deadlocks the scheduler: when every
\* computation of the children ends, every push_frame call and the stop call
\* on the chain return (or raise what the thread left), in every
\* interleaving of the two threads, also after the thread has ended because
\* of an exception of a child.
C38_ChainNeverDeadlocks ==
    /\ []((kind = "PluginChain") => ~(SchedulerWaits /\ WorkerCannotMove))
    /\ (kind = "PluginChain" /\ spc \in {"chain_get", "chain_put"})
           ~> (spc \in {"return", "except_finished", "finally"})
    /\ (kind = "PluginChain" /\ spc \in {"stop_put", "join"}) ~> (spc = "stopped")

C38_Witness ==
    /\ kind = "PluginChain"
    /\ wpc = "exited"
    /\ result = Value(1, "PluginFinished")
    /\ last_ret.raised = "PluginFinished"
    /\ pushes = 2
    /\ spc = "stopped"

\* seq is <<first, first + 1, ...>>.
CountsFrom(seq, first) == \A k \in 1..Len(seq) : seq[k] = first + k - 1

\* C39: for a worker-backed chain the first push_frame call returns an
\* empty contribution, and the k-th call, k >= 2, returns the result that
\* the thread computed from the input of call k - 1; every input that was
\* submitted is computed on exactly once, in the order of submission, and
\* none is dropped.
C39_ChainLagsOneCall ==
    /\ []((kind = "PluginChain") =>
            /\ CountsFrom(received, 0)
            /\ CountsFrom(accepted, 1)
            /\ CountsFrom(processed, 1)
            /\ Len(processed) <= Len(accepted)
            /\ Len(accepted) <= pushes
            /\ (spc = "return") =>
                  /\ last_ret = Return(FALSE, 0, pushes - 1)
                  /\ Len(received) = pushes
                  /\ Len(accepted) = pushes
                  /\ pushes >= 2 => (pushes - 1) \in Range(processed))
    /\ \A n \in 1..MaxPushes :
          (kind = "PluginChain" /\ n \in Range(accepted)) ~> (n \in Range(processed))

C39_Witness ==
    /\ kind = "PluginChain"
    /\ spc = "return"
    /\ pushes = 3
    /\ received = <<0, 1, 2>>
    /\ accepted = <<1, 2, 3>>
    /\ processed = <<1, 2, 3>>
    /\ last_ret.delta = 2

\* C40: throughout tick t the reserved key of the FrameState for the
\* original frame holds the frame acquired in tick t: the merge of what a
\* chain returns never replaces it with the value of an earlier tick.
C40_ReservedKeysOfThisTick ==
    \A t \in 1..Len(frame_original) : frame_original[t] = t
====
